---- MODULE Spec2Model ----
(***************************************************************************)
(* A model of cache_system: the policy engine (CachePolicy with the FIFO,  *)
(* LRU and LFU variants) and the multilevel CacheHierarchy.                *)
(*                                                                         *)
(* A policy instance is a record holding the fields of the Python object:  *)
(* the _cache dict, the CacheStats, and the auxiliary structure of each    *)
(* variant (the FIFO deque, the LRU sentinel list with its node map, the   *)
(* LFU frequency buckets).  Every method is an operator from a policy      *)
(* record to the policy record it leaves, written statement by statement.  *)
(* CacheEntry.timestamp (datetime.now()) and CacheEntry.size (always the   *)
(* default 1 here) are not represented; no claim reads them.               *)
(***************************************************************************)
EXTENDS Integers, Sequences, FiniteSets, TLC

\* ------------------------------------------------------------------ bounds
\* Capacities 1..MaxCap are tried (see TopCap).  With three keys a cache of
\* capacity 3 never overflows; capacities 1 and 2 do.
MaxCap == 3
\* Constructor calls are tried with the capacities from MinCap on.
MinCap == -1
\* hits + misses of one policy never exceed MaxCount, evictions never exceed
\* MaxEvict (reset_stats starts them again at 0).
MaxCount == 1
MaxEvict == 1
\* The accesses counted in the access_count fields of the stored entries,
\* beyond the 1 each starts with, never exceed MaxAccess in total.
MaxAccess == 2
\* hits + misses + evictions + those accesses never exceed MaxTotal: each
\* counter can reach its own cap, not all of them in the same state.
MaxTotal == 3

Keys == {"a", "b", "c"}
\* Python's None: the in-band "not found" result of get, also a storable value.
None == "None"
Vals == {None, "v1"}

FIFO == "FIFO"
LRU == "LRU"
LFU == "LFU"
Kinds == {FIFO, LRU, LFU}

\* The two sentinel nodes of the LRU list and the null link.
HEAD == "HEAD"
TAIL == "TAIL"
Nil == "nil"
Nodes == Keys \cup {HEAD, TAIL}

\* A cache whose capacity exceeds the number of keys is never full and runs
\* as one of capacity Cardinality(Keys) does: the capacities tried stop there.
TopCap == IF MaxCap <= Cardinality(Keys) THEN MaxCap ELSE Cardinality(Keys)

\* policy, pre, op, calls, hist : a policy instance used on its own (see Init)
\* hier, hpre, hop               : a CacheHierarchy and its levels (see InitH)
VARIABLES policy, pre, op, calls, hist, hier, hpre, hop,
          threads, atomic, returned

pvars == <<policy, pre, op, calls, hist>>
hvars == <<hier, hpre, hop>>
cvars == <<threads, atomic, returned>>
vars == <<policy, pre, op, calls, hist, hier, hpre, hop,
          threads, atomic, returned>>

\* ------------------------------------------------------------- dict helpers
\* {} : a dict with no key
EmptyDict == [x \in {} |-> None]

\* del d[k]
DictDel(d, k) == [x \in (DOMAIN d) \ {k} |-> d[x]]

\* d[k] = v
DictSet(d, k, v) == [x \in (DOMAIN d) \cup {k} |-> IF x = k THEN v ELSE d[x]]

\* deque.remove(k): drops the first occurrence of k
RECURSIVE SeqRemove(_, _)
SeqRemove(s, k) ==
    IF s = <<>> THEN <<>>
    ELSE IF Head(s) = k THEN Tail(s)
    ELSE <<Head(s)>> \o SeqRemove(Tail(s), k)

SeqHas(s, k) == \E i \in 1..Len(s) : s[i] = k

\* ------------------------------------------------------------ base.py data
CacheEntry(value) == [value |-> value, access_count |-> 1]

CacheStats(current_size, max_size) ==
    [hits |-> 0, misses |-> 0, evictions |-> 0,
     current_size |-> current_size, max_size |-> max_size]

\* CachePolicy.keys, as a set
Stored(c) == DOMAIN c.cache

current_size(c) == Cardinality(DOMAIN c.cache)

\* is_full with the comparison off by one
C1_mut_is_full(c) == Cardinality(DOMAIN c.cache) > c.capacity

is_full(c) == current_size(c) >= c.capacity

\* CachePolicy.__init__ followed by the variant's __init__ (capacity > 0).
NewPolicy(kind, capacity) ==
    [kind |-> kind,
     capacity |-> capacity,
     cache |-> EmptyDict,
     stats |-> CacheStats(0, capacity),
     insertion_queue |-> <<>>,
     node_map |-> {},
     next |-> [n \in Nodes |-> IF n = HEAD THEN TAIL ELSE Nil],
     prev |-> [n \in Nodes |-> IF n = TAIL THEN HEAD ELSE Nil],
     freq_map |-> EmptyDict,
     freq_key |-> EmptyDict,
     min_freq |-> 0]

\* __init__ that only rejects negative capacities
C13_mut_CachePolicy_init(kind, capacity) ==
    IF capacity < 0
    THEN [c |-> None, ret |-> "ValueError"]
    ELSE [c |-> NewPolicy(kind, capacity), ret |-> None]

\* The constructor call: [c |-> the instance, ret |-> None], or no instance
\* and the error raised.
CachePolicy_init(kind, capacity) ==
    IF capacity <= 0
    THEN [c |-> None, ret |-> "ValueError"]
    ELSE [c |-> NewPolicy(kind, capacity), ret |-> None]

SetStatSize(c) == [c EXCEPT !.stats.current_size = current_size(c)]

\* ----------------------------------------------------------------- fifo.py
\* _evict that takes the newest key of the queue
C14_mut_FIFO_evict(c) ==
    IF c.insertion_queue = <<>> THEN c
    ELSE LET n == Len(c.insertion_queue)
             newest_key == c.insertion_queue[n]
             c1 == [c EXCEPT !.insertion_queue = SubSeq(@, 1, n - 1)]
             c2 == [c1 EXCEPT !.cache = DictDel(c1.cache, newest_key)]
             c3 == [c2 EXCEPT !.stats.evictions = @ + 1]
         IN SetStatSize(c3)

FIFO_evict(c) ==
    IF c.insertion_queue = <<>> THEN c
    ELSE LET oldest_key == Head(c.insertion_queue)
             c1 == [c EXCEPT !.insertion_queue = Tail(c.insertion_queue)]
             c2 == IF oldest_key \in DOMAIN c1.cache
                   THEN [c1 EXCEPT !.cache = DictDel(c1.cache, oldest_key)]
                   ELSE c1
             c3 == [c2 EXCEPT !.stats.evictions = @ + 1]
         IN SetStatSize(c3)

FIFO_on_access(c, key) == c

FIFO_on_insert(c, key) == [c EXCEPT !.insertion_queue = Append(@, key)]

\* _on_update that moves the key to the end of the queue
C15_mut_FIFO_on_update(c, key) ==
    [c EXCEPT !.insertion_queue = Append(SeqRemove(@, key), key)]

\* _on_update that queues the key once more
C30_mut_FIFO_on_update(c, key) ==
    [c EXCEPT !.insertion_queue = Append(@, key)]

FIFO_on_update(c, key) == c

\* _on_delete that only handles the key at the head of the queue
C9_mut_FIFO_on_delete(c, key) ==
    IF c.insertion_queue # <<>> /\ Head(c.insertion_queue) = key
    THEN [c EXCEPT !.insertion_queue = Tail(@)]
    ELSE c

FIFO_on_delete(c, key) == [c EXCEPT !.insertion_queue = SeqRemove(@, key)]

FIFO_on_clear(c) == [c EXCEPT !.insertion_queue = <<>>]

get_insertion_order(c) == c.insertion_queue

peek_next_eviction(c) ==
    IF c.insertion_queue # <<>> THEN Head(c.insertion_queue) ELSE None

\* ------------------------------------------------------------------ lru.py
\* A DLinkedNode is identified with its key (node_map holds one node per key);
\* next and prev hold the links of every node, Nil for a node that is unlinked
\* or does not exist.
LRU_add_to_front(c, node) ==
    LET c1 == [c EXCEPT !.next[node] = c.next[HEAD]]
        c2 == [c1 EXCEPT !.prev[node] = HEAD]
        c3 == [c2 EXCEPT !.prev[c2.next[HEAD]] = node]
    IN [c3 EXCEPT !.next[HEAD] = node]

\* _remove_node that leaves the successor's prev link pointing at the node
C31_mut_LRU_remove_node(c, node) ==
    LET c1 == [c EXCEPT !.next[c.prev[node]] = c.next[node]]
        c3 == [c1 EXCEPT !.prev[node] = Nil]
    IN [c3 EXCEPT !.next[node] = Nil]

LRU_remove_node(c, node) ==
    LET c1 == [c EXCEPT !.next[c.prev[node]] = c.next[node]]
        c2 == [c1 EXCEPT !.prev[c1.next[node]] = c1.prev[node]]
        c3 == [c2 EXCEPT !.prev[node] = Nil]
    IN [c3 EXCEPT !.next[node] = Nil]

LRU_move_to_front(c, node) == LRU_add_to_front(LRU_remove_node(c, node), node)

\* _evict that unlinks the LRU node but forgets the entry in _cache
C7_mut_LRU_evict(c) ==
    LET lru_node == c.prev[TAIL] IN
    IF lru_node = HEAD THEN c
    ELSE LET c1 == LRU_remove_node(c, lru_node)
             c2 == [c1 EXCEPT !.node_map = @ \ {lru_node}]
         IN [c2 EXCEPT !.stats.evictions = @ + 1]

LRU_evict(c) ==
    LET lru_node == c.prev[TAIL] IN
    IF lru_node = HEAD THEN c
    ELSE LET lru_key == lru_node
             c1 == LRU_remove_node(c, lru_node)
             c2 == IF lru_key \in c1.node_map
                   THEN [c1 EXCEPT !.node_map = @ \ {lru_key}] ELSE c1
             c3 == IF lru_key \in DOMAIN c2.cache
                   THEN [c2 EXCEPT !.cache = DictDel(c2.cache, lru_key)] ELSE c2
             c4 == [c3 EXCEPT !.stats.evictions = @ + 1]
         IN SetStatSize(c4)

\* _on_access that counts the access but leaves the node where it is
C17_mut_LRU_on_access(c, key) ==
    [c EXCEPT !.cache[key].access_count = @ + 1]

LRU_on_access(c, key) ==
    LET c1 == [c EXCEPT !.cache[key].access_count = @ + 1]
    IN IF key \in c1.node_map THEN LRU_move_to_front(c1, key) ELSE c1

LRU_on_insert(c, key) ==
    LET c1 == LRU_add_to_front(c, key)
    IN [c1 EXCEPT !.node_map = @ \cup {key}]

\* _on_update that leaves the list as it is
C16_mut_LRU_on_update(c, key) == c

LRU_on_update(c, key) == LRU_on_access(c, key)

LRU_on_delete(c, key) ==
    IF key \in c.node_map
    THEN [LRU_remove_node(c, key) EXCEPT !.node_map = @ \ {key}]
    ELSE c

\* The nodes dropped by clear are unreachable afterwards; their links are
\* not kept.
LRU_on_clear(c) ==
    [c EXCEPT !.node_map = {},
              !.next = [n \in Nodes |-> IF n = HEAD THEN TAIL ELSE Nil],
              !.prev = [n \in Nodes |-> IF n = TAIL THEN HEAD ELSE Nil]]

RECURSIVE WalkFrom(_, _, _)
WalkFrom(c, node, fuel) ==
    IF node = TAIL \/ node = Nil \/ fuel = 0 THEN <<>>
    ELSE <<node>> \o WalkFrom(c, c.next[node], fuel - 1)

\* MRU first, LRU last
get_access_order(c) == WalkFrom(c, c.next[HEAD], Cardinality(Nodes))

peek_lru(c) == IF c.prev[TAIL] = HEAD THEN None ELSE c.prev[TAIL]

peek_mru(c) == IF c.next[HEAD] = TAIL THEN None ELSE c.next[HEAD]

\* ------------------------------------------------------------------ lfu.py
\* freq_map is a defaultdict(OrderedDict): frequency -> keys in insertion
\* order.  Reading freq_map[f] for a missing f creates an empty bucket.
FreqMapTouch(fm, f) == IF f \in DOMAIN fm THEN fm ELSE DictSet(fm, f, <<>>)

\* freq_map[f][key] = None : appended unless the bucket already holds key
BucketAdd(fm, f, key) ==
    LET fm1 == FreqMapTouch(fm, f)
    IN IF SeqHas(fm1[f], key) THEN fm1
       ELSE [fm1 EXCEPT ![f] = Append(@, key)]

MinOf(S) == CHOOSE m \in S : \A x \in S : m <= x

LFU_increment_frequency(c, key) ==
    LET current_freq == c.freq_key[key]
        c1 == [c EXCEPT !.freq_map =
                   [FreqMapTouch(c.freq_map, current_freq)
                        EXCEPT ![current_freq] = SeqRemove(@, key)]]
        c2 == IF c1.freq_map[current_freq] = <<>>
              THEN LET d == [c1 EXCEPT !.freq_map = DictDel(@, current_freq)]
                   IN IF current_freq = d.min_freq
                      THEN [d EXCEPT !.min_freq = current_freq + 1]
                      ELSE d
              ELSE c1
        new_freq == current_freq + 1
        c3 == [c2 EXCEPT !.freq_map = BucketAdd(@, new_freq, key)]
    IN [c3 EXCEPT !.freq_key = DictSet(@, key, new_freq)]

\* _evict that takes the key that entered the min_freq bucket last
C19_mut_LFU_evict(c) ==
    IF c.min_freq = 0 THEN c
    ELSE LET c0 == [c EXCEPT !.freq_map = FreqMapTouch(@, c.min_freq)] IN
         IF c0.freq_map[c0.min_freq] = <<>> THEN c0
         ELSE LET n == Len(c0.freq_map[c0.min_freq])
                  lfu_key == c0.freq_map[c0.min_freq][n]
                  c1 == [c0 EXCEPT !.freq_map[c0.min_freq] = SubSeq(@, 1, n - 1)]
                  c2 == IF c1.freq_map[c1.min_freq] = <<>>
                        THEN [c1 EXCEPT !.freq_map = DictDel(@, c1.min_freq)]
                        ELSE c1
                  c3 == [c2 EXCEPT !.freq_key = DictDel(@, lfu_key)]
                  c4 == [c3 EXCEPT !.cache = DictDel(@, lfu_key)]
                  c5 == [c4 EXCEPT !.stats.evictions = @ + 1]
              IN SetStatSize(c5)

LFU_evict(c) ==
    IF c.min_freq = 0 THEN c
    ELSE LET c0 == [c EXCEPT !.freq_map = FreqMapTouch(@, c.min_freq)] IN
         IF c0.freq_map[c0.min_freq] = <<>> THEN c0
         ELSE LET lfu_key == Head(c0.freq_map[c0.min_freq])
                  c1 == [c0 EXCEPT !.freq_map[c0.min_freq] = Tail(@)]
                  c2 == IF c1.freq_map[c1.min_freq] = <<>>
                        THEN [c1 EXCEPT !.freq_map = DictDel(@, c1.min_freq)]
                        ELSE c1
                  c3 == IF lfu_key \in DOMAIN c2.freq_key
                        THEN [c2 EXCEPT !.freq_key = DictDel(@, lfu_key)]
                        ELSE c2
                  c4 == IF lfu_key \in DOMAIN c3.cache
                        THEN [c3 EXCEPT !.cache = DictDel(@, lfu_key)]
                        ELSE c3
                  c5 == [c4 EXCEPT !.stats.evictions = @ + 1]
              IN SetStatSize(c5)

LFU_on_access(c, key) ==
    LFU_increment_frequency([c EXCEPT !.cache[key].access_count = @ + 1], key)

LFU_on_insert(c, key) ==
    [c EXCEPT !.freq_map = BucketAdd(@, 1, key),
              !.freq_key = DictSet(@, key, 1),
              !.min_freq = 1]

\* _on_update that leaves the frequency as it is
C18_mut_LFU_on_update(c, key) == c

LFU_on_update(c, key) == LFU_on_access(c, key)

\* _on_delete that leaves the bucket in the frequency map when it has
\* become empty
C32_mut_LFU_on_delete(c, key) ==
    IF key \notin DOMAIN c.freq_key THEN c
    ELSE LET freq == c.freq_key[key]
             c1 == IF freq \in DOMAIN c.freq_map /\ SeqHas(c.freq_map[freq], key)
                   THEN LET d1 == [c EXCEPT !.freq_map[freq] = SeqRemove(@, key)]
                        IN IF d1.freq_map[freq] = <<>> /\ freq = d1.min_freq
                           THEN [d1 EXCEPT !.min_freq =
                                    LET rest == DOMAIN d1.freq_map \ {freq}
                                    IN IF rest # {} THEN MinOf(rest) ELSE 0]
                           ELSE d1
                   ELSE c
         IN [c1 EXCEPT !.freq_key = DictDel(@, key)]

\* _on_delete that, when the minimum bucket has become empty, moves min_freq
\* on by one instead of looking for the smallest bucket left
C33_mut_LFU_on_delete(c, key) ==
    IF key \notin DOMAIN c.freq_key THEN c
    ELSE LET freq == c.freq_key[key]
             c1 == IF freq \in DOMAIN c.freq_map /\ SeqHas(c.freq_map[freq], key)
                   THEN LET d1 == [c EXCEPT !.freq_map[freq] = SeqRemove(@, key)]
                        IN IF d1.freq_map[freq] = <<>>
                           THEN LET d2 == [d1 EXCEPT !.freq_map = DictDel(@, freq)]
                                IN IF freq = d2.min_freq
                                   THEN [d2 EXCEPT !.min_freq =
                                            IF DOMAIN d2.freq_map # {}
                                            THEN freq + 1 ELSE 0]
                                   ELSE d2
                           ELSE d1
                   ELSE c
         IN [c1 EXCEPT !.freq_key = DictDel(@, key)]

LFU_on_delete(c, key) ==
    IF key \notin DOMAIN c.freq_key THEN c
    ELSE LET freq == c.freq_key[key]
             c1 == IF freq \in DOMAIN c.freq_map /\ SeqHas(c.freq_map[freq], key)
                   THEN LET d1 == [c EXCEPT !.freq_map[freq] = SeqRemove(@, key)]
                        IN IF d1.freq_map[freq] = <<>>
                           THEN LET d2 == [d1 EXCEPT !.freq_map = DictDel(@, freq)]
                                IN IF freq = d2.min_freq
                                   THEN [d2 EXCEPT !.min_freq =
                                            IF DOMAIN d2.freq_map # {}
                                            THEN MinOf(DOMAIN d2.freq_map)
                                            ELSE 0]
                                   ELSE d2
                           ELSE d1
                   ELSE c
         IN [c1 EXCEPT !.freq_key = DictDel(@, key)]

\* _on_clear that leaves min_freq as it was
C11_mut_LFU_on_clear(c) ==
    [c EXCEPT !.freq_map = EmptyDict, !.freq_key = EmptyDict]

LFU_on_clear(c) ==
    [c EXCEPT !.freq_map = EmptyDict, !.freq_key = EmptyDict, !.min_freq = 0]

get_frequency_distribution(c) ==
    [f \in DOMAIN c.freq_map |-> Len(c.freq_map[f])]

\* The read of freq_map[min_freq] is looked at for its result only.
peek_lfu(c) ==
    IF c.min_freq = 0 THEN None
    ELSE LET fm == FreqMapTouch(c.freq_map, c.min_freq)
         IN IF fm[c.min_freq] = <<>> THEN None ELSE Head(fm[c.min_freq])

get_key_frequency(c, key) ==
    IF key \in DOMAIN c.freq_key THEN c.freq_key[key] ELSE None

\* ------------------------------------------- base.py: hooks by variant
evict(c) ==
    CASE c.kind = FIFO -> FIFO_evict(c)
      [] c.kind = LRU -> LRU_evict(c)
      [] c.kind = LFU -> LFU_evict(c)

on_access(c, key) ==
    CASE c.kind = FIFO -> FIFO_on_access(c, key)
      [] c.kind = LRU -> LRU_on_access(c, key)
      [] c.kind = LFU -> LFU_on_access(c, key)

on_insert(c, key) ==
    CASE c.kind = FIFO -> FIFO_on_insert(c, key)
      [] c.kind = LRU -> LRU_on_insert(c, key)
      [] c.kind = LFU -> LFU_on_insert(c, key)

on_update(c, key) ==
    CASE c.kind = FIFO -> FIFO_on_update(c, key)
      [] c.kind = LRU -> LRU_on_update(c, key)
      [] c.kind = LFU -> LFU_on_update(c, key)

on_delete(c, key) ==
    CASE c.kind = FIFO -> FIFO_on_delete(c, key)
      [] c.kind = LRU -> LRU_on_delete(c, key)
      [] c.kind = LFU -> LFU_on_delete(c, key)

on_clear(c) ==
    CASE c.kind = FIFO -> FIFO_on_clear(c)
      [] c.kind = LRU -> LRU_on_clear(c)
      [] c.kind = LFU -> LFU_on_clear(c)

\* ------------------------------------------- base.py: public operations
\* get whose miss branch counts a hit
C4_mut_get(c, key) ==
    IF key \in DOMAIN c.cache
    THEN [c |-> on_access([c EXCEPT !.stats.hits = @ + 1], key),
          ret |-> c.cache[key].value]
    ELSE [c |-> [c EXCEPT !.stats.hits = @ + 1], ret |-> None]

\* Each returns [c |-> the policy afterwards, ret |-> the value returned].
get(c, key) ==
    IF key \in DOMAIN c.cache
    THEN LET c1 == [c EXCEPT !.stats.hits = @ + 1]
             value == c1.cache[key].value
         IN [c |-> on_access(c1, key), ret |-> value]
    ELSE [c |-> [c EXCEPT !.stats.misses = @ + 1], ret |-> None]

\* _insert_entry that does not bring stats.current_size up to date
C37_mut_insert_entry(c, key, value) ==
    on_insert([c EXCEPT !.cache = DictSet(@, key, CacheEntry(value))], key)

insert_entry(c, key, value) ==
    LET c1 == [c EXCEPT !.cache = DictSet(@, key, CacheEntry(value))]
    IN on_insert(SetStatSize(c1), key)

\* _update_entry that runs the hook without storing the new value
C2_mut_update_entry(c, key, value) == on_update(c, key)

\* _update_entry that counts the update as a hit
C5_mut_update_entry(c, key, value) ==
    on_update([c EXCEPT !.cache[key].value = value, !.stats.hits = @ + 1], key)

update_entry(c, key, value) ==
    on_update([c EXCEPT !.cache[key].value = value], key)

\* put that makes room before looking whether the key is already stored
C8_mut_put(c, key, value) ==
    LET c1 == IF is_full(c) THEN evict(c) ELSE c
    IN IF key \in DOMAIN c1.cache
       THEN [c |-> update_entry(c1, key, value), ret |-> None]
       ELSE [c |-> insert_entry(c1, key, value), ret |-> None]

put(c, key, value) ==
    IF key \in DOMAIN c.cache
    THEN [c |-> update_entry(c, key, value), ret |-> None]
    ELSE LET c1 == IF is_full(c) THEN evict(c) ELSE c
         IN [c |-> insert_entry(c1, key, value), ret |-> None]

\* delete that reports success whether or not the key was stored
C10_mut_delete(c, key) ==
    LET c1 == on_delete(c, key)
        c2 == [c1 EXCEPT !.cache = DictDel(@, key)]
    IN [c |-> SetStatSize(c2), ret |-> TRUE]

delete(c, key) ==
    IF key \in DOMAIN c.cache
    THEN LET c1 == on_delete(c, key)
             c2 == [c1 EXCEPT !.cache = DictDel(@, key)]
         IN [c |-> SetStatSize(c2), ret |-> TRUE]
    ELSE [c |-> c, ret |-> FALSE]

clear(c) ==
    LET c1 == on_clear([c EXCEPT !.cache = EmptyDict])
    IN [c |-> [c1 EXCEPT !.stats.current_size = 0], ret |-> None]

\* contains written as a lookup through get
C6_mut_contains(c, key) ==
    [c |-> get(c, key).c, ret |-> key \in DOMAIN c.cache]

contains(c, key) == [c |-> c, ret |-> key \in DOMAIN c.cache]

\* reset_stats that starts the size counter again at 0
C12_mut_reset_stats(c) ==
    [c |-> [c EXCEPT !.stats = CacheStats(0, c.capacity)], ret |-> None]

reset_stats(c) ==
    [c |-> [c EXCEPT !.stats = CacheStats(current_size(c), c.capacity)],
     ret |-> None]

\* The inspection methods, as calls: the instance afterwards and the result.
\* peek_next_eviction, peek_lru and peek_mru only read.  peek_lfu reads
\* _freq_map[_min_freq], a defaultdict, behind the test _min_freq == 0.
PeekNames == {"peek_next_eviction", "peek_lru", "peek_mru", "peek_lfu"}

PeekKind(name) ==
    CASE name = "peek_next_eviction" -> FIFO
      [] name = "peek_lfu" -> LFU
      [] OTHER -> LRU

\* peek_lfu that reads the bucket before it looks at _min_freq
C34_mut_peek_call(c, name) ==
    [c |-> IF name = "peek_lfu"
           THEN [c EXCEPT !.freq_map = FreqMapTouch(@, c.min_freq)]
           ELSE c,
     ret |-> CASE name = "peek_next_eviction" -> peek_next_eviction(c)
               [] name = "peek_lru" -> peek_lru(c)
               [] name = "peek_mru" -> peek_mru(c)
               [] OTHER -> peek_lfu(c)]

peek_call(c, name) ==
    CASE name = "peek_next_eviction" -> [c |-> c, ret |-> peek_next_eviction(c)]
      [] name = "peek_lru" -> [c |-> c, ret |-> peek_lru(c)]
      [] name = "peek_mru" -> [c |-> c, ret |-> peek_mru(c)]
      [] OTHER ->
            [c |-> IF c.min_freq = 0 THEN c
                   ELSE [c EXCEPT !.freq_map = FreqMapTouch(@, c.min_freq)],
             ret |-> peek_lfu(c)]

\* ------------------------------------------------------ cache_hierarchy.py
\* A level owns its policy: the model gives every level a policy instance of
\* its own (add_level is always handed a freshly built policy), so a level
\* record holds the policy record itself.  Level indexes are 1-based here;
\* level i of the model is level_index i - 1 of the code.
LevelStats(name) ==
    [name |-> name, hits |-> 0, misses |-> 0, promotions |-> 0,
     demotions |-> 0, total_latency_ms |-> 0]

CacheLevel(cache, name, latency_ms) ==
    [cache |-> cache, name |-> name, latency_ms |-> latency_ms,
     stats |-> LevelStats(name)]

\* CacheHierarchy.__init__
NewHierarchy ==
    [levels |-> <<>>, total_hits |-> 0, total_misses |-> 0,
     total_promotions |-> 0, total_latency_ms |-> 0]

\* f"L{n}"
DefaultName(n) == CASE n = 1 -> "L1" [] n = 2 -> "L2" [] n = 3 -> "L3"
                    [] OTHER -> "L4"

\* add_level without the test for a name in use
C24_mut_add_level(h, cache, name, latency_ms) ==
    LET name1 == IF name = None THEN DefaultName(Len(h.levels) + 1) ELSE name
    IN [h |-> [h EXCEPT !.levels =
                   Append(@, CacheLevel(cache, name1, latency_ms))],
        ret |-> None]

\* Returns [h |-> the hierarchy afterwards, ret |-> None or the error raised].
add_level(h, cache, name, latency_ms) ==
    LET name1 == IF name = None THEN DefaultName(Len(h.levels) + 1) ELSE name
    IN IF \E i \in 1..Len(h.levels) : h.levels[i].name = name1
       THEN [h |-> h, ret |-> "ValueError"]
       ELSE [h |-> [h EXCEPT !.levels =
                        Append(@, CacheLevel(cache, name1, latency_ms))],
             ret |-> None]

\* for upper_level_index in range(from_level_index): levels j..from_level - 1
RECURSIVE promote_from(_, _, _, _, _)
promote_from(h, key, value, j, from_level) ==
    IF j >= from_level THEN h
    ELSE LET h1 == [h EXCEPT !.levels[j].cache = put(@, key, value).c]
             h2 == [h1 EXCEPT !.levels[j].stats.promotions = @ + 1]
             h3 == [h2 EXCEPT !.total_promotions = @ + 1]
         IN promote_from(h3, key, value, j + 1, from_level)

\* _promote_to_upper_levels that leaves the first level out
C20_mut_promote_to_upper_levels(h, key, value, from_level) ==
    promote_from(h, key, value, 2, from_level)

promote_to_upper_levels(h, key, value, from_level) ==
    promote_from(h, key, value, 1, from_level)

\* The loop of CacheHierarchy.get from level i on, cumulative being the
\* latency summed over the levels already visited.
RECURSIVE h_get_from(_, _, _, _)
h_get_from(h, key, i, cumulative) ==
    IF i > Len(h.levels)
    THEN [h |-> [h EXCEPT !.total_misses = @ + 1], ret |-> None]
    ELSE LET cumulative_latency == cumulative + h.levels[i].latency_ms
             h1 == [h EXCEPT !.levels[i].stats.total_latency_ms =
                                 @ + h.levels[i].latency_ms]
             r == get(h1.levels[i].cache, key)
             h2 == [h1 EXCEPT !.levels[i].cache = r.c]
         IN IF r.ret # None
            THEN LET h3 == [h2 EXCEPT !.levels[i].stats.hits = @ + 1]
                     h4 == [h3 EXCEPT !.total_hits = @ + 1]
                     h5 == [h4 EXCEPT !.total_latency_ms = @ + cumulative_latency]
                     h6 == IF i - 1 > 0
                           THEN promote_to_upper_levels(h5, key, r.ret, i)
                           ELSE h5
                 IN [h |-> h6, ret |-> r.ret]
            ELSE h_get_from([h2 EXCEPT !.levels[i].stats.misses = @ + 1],
                            key, i + 1, cumulative_latency)

\* get that counts one global promotion per get, however many levels the
\* key is copied to
C21_mut_h_get(h, key) ==
    LET r == h_get_from(h, key, 1, 0)
    IN [h |-> [r.h EXCEPT !.total_promotions =
                   IF @ > h.total_promotions THEN h.total_promotions + 1 ELSE @],
        ret |-> r.ret]

\* get that on a miss at every level counts the miss of the first level only
C27_mut_h_get(h, key) ==
    LET r == h_get_from(h, key, 1, 0)
    IN IF r.ret # None THEN r
       ELSE [h |-> [r.h EXCEPT !.levels =
                        [i \in 1..Len(h.levels) |->
                            IF i = 1 THEN r.h.levels[i]
                            ELSE [r.h.levels[i] EXCEPT !.stats.misses =
                                      h.levels[i].stats.misses]]],
             ret |-> None]

\* get that adds to the global latency total the latency of the level that
\* hit, instead of the latency summed over the levels visited
C29_mut_h_get(h, key) ==
    LET r == h_get_from(h, key, 1, 0)
        hit == {i \in 1..Len(h.levels) :
                   r.h.levels[i].stats.hits > h.levels[i].stats.hits}
    IN [h |-> [r.h EXCEPT !.total_latency_ms =
                   h.total_latency_ms
                       + (IF hit = {} THEN 0
                          ELSE h.levels[CHOOSE i \in hit : TRUE].latency_ms)],
        ret |-> r.ret]

\* get that, when a level hits, takes back the misses counted at the levels
\* above it
C39_mut_h_get(h, key) ==
    LET r == h_get_from(h, key, 1, 0)
    IN IF r.ret = None THEN r
       ELSE [h |-> [r.h EXCEPT !.levels =
                        [i \in 1..Len(h.levels) |->
                            [r.h.levels[i] EXCEPT !.stats.misses =
                                 h.levels[i].stats.misses]]],
             ret |-> r.ret]

\* get that goes on to look the key up at the levels below the one that hit
C40_mut_h_get(h, key) ==
    LET r == h_get_from(h, key, 1, 0)
        hit == {i \in 1..Len(h.levels) :
                   r.h.levels[i].stats.hits > h.levels[i].stats.hits}
    IN [h |-> [r.h EXCEPT !.levels =
                   [i \in 1..Len(h.levels) |->
                       IF \E l \in hit : i > l
                       THEN [r.h.levels[i] EXCEPT !.cache = get(@, key).c]
                       ELSE r.h.levels[i]]],
        ret |-> r.ret]

h_get(h, key) == h_get_from(h, key, 1, 0)

\* put that writes the first level only
C22_mut_h_put(h, key, value) ==
    IF h.levels = <<>>
    THEN [h |-> h, ret |-> "RuntimeError"]
    ELSE [h |-> [h EXCEPT !.levels[1].cache = put(@, key, value).c],
          ret |-> None]

\* put without the test for an empty hierarchy
C23_mut_h_put(h, key, value) ==
    [h |-> [h EXCEPT !.levels =
                [i \in 1..Len(h.levels) |->
                    [h.levels[i] EXCEPT !.cache = put(@, key, value).c]]],
     ret |-> None]

\* One pass of the loop of CacheHierarchy.get, at level i, for a caller that
\* has summed cumulative over the levels before: the hierarchy afterwards,
\* the value found (None for a miss) and the new sum.
h_get_level(h, key, i, cumulative) ==
    LET cumulative_latency == cumulative + h.levels[i].latency_ms
        h1 == [h EXCEPT !.levels[i].stats.total_latency_ms =
                            @ + h.levels[i].latency_ms]
        r == get(h1.levels[i].cache, key)
        h2 == [h1 EXCEPT !.levels[i].cache = r.c]
    IN IF r.ret # None
       THEN LET h3 == [h2 EXCEPT !.levels[i].stats.hits = @ + 1]
                h4 == [h3 EXCEPT !.total_hits = @ + 1]
                h5 == [h4 EXCEPT !.total_latency_ms = @ + cumulative_latency]
            IN [h |-> h5, ret |-> r.ret, cumulative |-> cumulative_latency]
       ELSE [h |-> [h2 EXCEPT !.levels[i].stats.misses = @ + 1],
             ret |-> None, cumulative |-> cumulative_latency]

\* one pass of the loop of _promote_to_upper_levels that counts the
\* promotion and does not put the key
C35_mut_promote_level(h, key, value, j) ==
    [h EXCEPT !.levels[j].stats.promotions = @ + 1,
              !.total_promotions = @ + 1]

\* one pass of the loop of _promote_to_upper_levels, at level j
promote_level(h, key, value, j) == promote_from(h, key, value, j, j + 1)

h_put(h, key, value) ==
    IF h.levels = <<>>
    THEN [h |-> h, ret |-> "RuntimeError"]
    ELSE [h |-> [h EXCEPT !.levels =
                     [i \in 1..Len(h.levels) |->
                         [h.levels[i] EXCEPT !.cache = put(@, key, value).c]]],
          ret |-> None]

\* delete that stops at the first level that held the key
C25_mut_h_delete(h, key) ==
    LET holders == {i \in 1..Len(h.levels) : delete(h.levels[i].cache, key).ret}
        first == IF holders = {} THEN 0
                 ELSE CHOOSE i \in holders : \A j \in holders : i <= j
    IN [h |-> IF first = 0 THEN h
              ELSE [h EXCEPT !.levels[first].cache = delete(@, key).c],
        ret |-> holders # {}]

h_delete(h, key) ==
    [h |-> [h EXCEPT !.levels =
                [i \in 1..Len(h.levels) |->
                    [h.levels[i] EXCEPT !.cache = delete(@, key).c]]],
     ret |-> \E i \in 1..Len(h.levels) : delete(h.levels[i].cache, key).ret]

\* contains that looks the key up with get
C26_mut_h_contains(h, key) ==
    LET r == h_get(h, key) IN [h |-> r.h, ret |-> r.ret # None]

h_contains(h, key) ==
    [h |-> h,
     ret |-> \E i \in 1..Len(h.levels) : contains(h.levels[i].cache, key).ret]

h_clear(h) ==
    [h |-> [h EXCEPT !.levels =
                [i \in 1..Len(h.levels) |->
                    [h.levels[i] EXCEPT !.cache = clear(@).c]]],
     ret |-> None]

\* reset_stats that leaves the policies' own statistics alone
C28_mut_h_reset_stats(h) ==
    [h |-> [h EXCEPT !.levels =
                [i \in 1..Len(h.levels) |->
                    [h.levels[i] EXCEPT !.stats = LevelStats(h.levels[i].name)]],
              !.total_hits = 0,
              !.total_misses = 0,
              !.total_promotions = 0,
              !.total_latency_ms = 0],
     ret |-> None]

\* reset_stats that leaves the global hit and promotion counters as they are
C38_mut_h_reset_stats(h) ==
    [h |-> [h EXCEPT !.levels =
                [i \in 1..Len(h.levels) |->
                    [h.levels[i] EXCEPT !.stats = LevelStats(h.levels[i].name),
                                        !.cache = reset_stats(@).c]],
              !.total_misses = 0,
              !.total_latency_ms = 0],
     ret |-> None]

h_reset_stats(h) ==
    [h |-> [h EXCEPT !.levels =
                [i \in 1..Len(h.levels) |->
                    [h.levels[i] EXCEPT !.stats = LevelStats(h.levels[i].name),
                                        !.cache = reset_stats(@).c]],
              !.total_hits = 0,
              !.total_misses = 0,
              !.total_promotions = 0,
              !.total_latency_ms = 0],
     ret |-> None]

\* ------------------------------------------------ a policy used on its own
\* policy : the policy instance under test
\* pre    : the same instance as it was when the last operation was called
\* op     : the last operation: its name, arguments and returned value;
\*          prev_put is <<v>> when the operation is a get(k) called right
\*          after put(k, v), and <<>> otherwise
\* calls  : the get calls made since construction or the last reset_stats,
\*          split by whether the key was stored when get was called
\* hist   : what a client knows of the stored keys from the calls it made and
\*          from which keys are stored, without looking into the instance:
\*            inserted : the stored keys, oldest insertion first
\*            touched  : the stored keys, oldest last touch first, a touch
\*                       being an insertion, a get that hits or an updating put
\*            touches  : for each stored key, 1 + the number of hit gets and
\*                       updating puts since its most recent insertion
\*          inserted is kept for FIFO instances, touched for LRU and LFU
\*          instances, touches for LFU instances.
NoKey == "nokey"

NoHist == [inserted |-> <<>>, touched |-> <<>>, touches |-> EmptyDict]

SeqKeep(s, S) == SelectSeq(s, LAMBDA x : x \in S)

\* hist after the call name(key) that found the keys of before stored and
\* left the keys of after stored
HistAfter(h, kind, before, after, name, key) ==
    LET fresh == name = "put" /\ key \notin before
        touch == name = "put" \/ (name = "get" /\ key \in before)
    IN [inserted |->
            IF kind = FIFO
            THEN SeqKeep(IF fresh THEN Append(h.inserted, key) ELSE h.inserted,
                         after)
            ELSE <<>>,
        touched |->
            IF kind \in {LRU, LFU}
            THEN SeqKeep(IF touch THEN Append(SeqRemove(h.touched, key), key)
                                  ELSE h.touched,
                         after)
            ELSE <<>>,
        touches |->
            IF kind = LFU
            THEN [k \in after |->
                     IF k = key /\ fresh THEN 1
                     ELSE IF k \notin DOMAIN h.touches THEN 0
                     ELSE IF k = key /\ touch THEN h.touches[k] + 1
                     ELSE h.touches[k]]
            ELSE EmptyDict]

OpRec(name, key, val, ret, prev_put) ==
    [name |-> name, key |-> key, val |-> val, ret |-> ret, prev_put |-> prev_put]

NoCalls == [on_present |-> 0, on_absent |-> 0]

RECURSIVE SumOver(_, _)
SumOver(f, S) ==
    IF S = {} THEN 0
    ELSE LET x == CHOOSE y \in S : TRUE IN f[x] + SumOver(f, S \ {x})

\* The counters are unbounded in the code; the model stops at these caps.
Bounded(c) ==
    /\ c.stats.hits + c.stats.misses <= MaxCount
    /\ c.stats.evictions <= MaxEvict
    /\ SumOver([k \in DOMAIN c.cache |-> c.cache[k].access_count - 1],
               DOMAIN c.cache) <= MaxAccess
    /\ c.stats.hits + c.stats.misses + c.stats.evictions
           + SumOver([k \in DOMAIN c.cache |-> c.cache[k].access_count - 1],
                     DOMAIN c.cache) <= MaxTotal

\* The callers of CacheHierarchy.get.  A caller is idle, or inside get at
\* the lookup of level i, or inside _promote_to_upper_levels at level j, or
\* at the return statement, or done.
Threads == {1, 2}

IdleThread ==
    [pc |-> "idle", key |-> NoKey, i |-> 0, j |-> 0, cumulative |-> 0,
     value |-> None, hit |-> 0]

NoThreads == [t \in Threads |-> IdleThread]

Init ==
    /\ policy \in {NewPolicy(kind, cap) : kind \in Kinds, cap \in 1..TopCap}
    /\ pre = policy
    /\ op = OpRec("init", NoKey, None, None, <<>>)
    /\ calls = NoCalls
    /\ hist = NoHist
    /\ hier = NewHierarchy
    /\ hpre = hier
    /\ hop = OpRec("init", NoKey, None, None, <<>>)
    /\ threads = NoThreads
    /\ atomic = TRUE
    /\ returned = 0

Get(k) ==
    LET r == get(policy, k) IN
    /\ Bounded(r.c)
    /\ policy' = r.c
    /\ pre' = policy
    /\ op' = OpRec("get", k, None, r.ret,
                   IF op.name = "put" /\ op.key = k THEN <<op.val>> ELSE <<>>)
    /\ calls' = IF k \in DOMAIN policy.cache
                THEN [calls EXCEPT !.on_present = @ + 1]
                ELSE [calls EXCEPT !.on_absent = @ + 1]
    /\ hist' = HistAfter(hist, policy.kind, Stored(policy), Stored(r.c), "get", k)
    /\ UNCHANGED <<hvars, cvars>>

Put(k, v) ==
    LET r == put(policy, k, v) IN
    /\ Bounded(r.c)
    /\ policy' = r.c
    /\ pre' = policy
    /\ op' = OpRec("put", k, v, r.ret, <<>>)
    /\ hist' = HistAfter(hist, policy.kind, Stored(policy), Stored(r.c), "put", k)
    /\ UNCHANGED <<calls, hvars, cvars>>

Delete(k) ==
    LET r == delete(policy, k) IN
    /\ policy' = r.c
    /\ pre' = policy
    /\ op' = OpRec("delete", k, None, r.ret, <<>>)
    /\ hist' = HistAfter(hist, policy.kind, Stored(policy), Stored(r.c), "delete", k)
    /\ UNCHANGED <<calls, hvars, cvars>>

Clear ==
    LET r == clear(policy) IN
    /\ policy' = r.c
    /\ pre' = policy
    /\ op' = OpRec("clear", NoKey, None, r.ret, <<>>)
    /\ hist' = HistAfter(hist, policy.kind, Stored(policy), Stored(r.c), "clear", NoKey)
    /\ UNCHANGED <<calls, hvars, cvars>>

Contains(k) ==
    LET r == contains(policy, k) IN
    /\ policy' = r.c
    /\ pre' = policy
    /\ op' = OpRec("contains", k, None, r.ret, <<>>)
    /\ hist' = HistAfter(hist, policy.kind, Stored(policy), Stored(r.c), "contains", k)
    /\ UNCHANGED <<calls, hvars, cvars>>

ResetStats ==
    LET r == reset_stats(policy) IN
    /\ policy' = r.c
    /\ pre' = policy
    /\ op' = OpRec("reset_stats", NoKey, None, r.ret, <<>>)
    /\ calls' = NoCalls
    /\ hist' = HistAfter(hist, policy.kind, Stored(policy), Stored(r.c),
                        "reset_stats", NoKey)
    /\ UNCHANGED <<hvars, cvars>>

Peek(name) ==
    LET r == peek_call(policy, name) IN
    /\ policy.kind = PeekKind(name)
    /\ policy' = r.c
    /\ pre' = policy
    /\ op' = OpRec(name, NoKey, None, r.ret, <<>>)
    /\ hist' = HistAfter(hist, policy.kind, Stored(policy), Stored(r.c), name, NoKey)
    /\ UNCHANGED <<calls, hvars, cvars>>

\* A constructor call.  One that succeeds puts the new instance under test;
\* one that raises leaves the instance under test as it is.  The outcome
\* does not depend on the instance under test, so the calls are made while
\* that instance has not been used.
Construct(kind, capacity) ==
    LET r == CachePolicy_init(kind, capacity) IN
    /\ op.name \in {"init", "construct"}
    /\ policy' = IF r.ret = None THEN r.c ELSE policy
    /\ pre' = policy'
    /\ op' = OpRec("construct", NoKey, capacity, r.ret, <<>>)
    /\ calls' = IF r.ret = None THEN NoCalls ELSE calls
    /\ hist' = IF r.ret = None THEN NoHist ELSE hist
    /\ UNCHANGED <<hvars, cvars>>

Next ==
    \/ \E kind \in Kinds, capacity \in MinCap..TopCap : Construct(kind, capacity)
    \/ \E k \in Keys : Get(k)
    \/ \E k \in Keys, v \in Vals : Put(k, v)
    \/ \E k \in Keys : Delete(k)
    \/ Clear
    \/ \E k \in Keys : Contains(k)
    \/ \E name \in PeekNames : Peek(name)
    \/ ResetStats

Spec == Init /\ [][Next]_vars

\* ------------------------------------------------------------ a hierarchy
\* hier : the hierarchy
\* hpre : the hierarchy as it was when the last operation was called
\* hop  : the last operation, as op above
\*
\* The hierarchies built are those of Shapes and their prefixes: add_level is
\* handed a fresh policy of the kind and capacity the shape has at that
\* position, the default name (None) or the name "L1", and the latency of
\* the position.  Levels are added at configuration time, before the first
\* operation on a hierarchy that has levels; an add_level that fails on a
\* duplicate name is tried at any time.
HKeys == {"a", "b"}
LevelNames == {None, "L1"}
Latencies == <<1, 2, 4>>
Shapes ==
    { << <<FIFO, 1>>, <<LRU, 1>>, <<LFU, 2>> >>,
      << <<LRU, 1>>, <<LFU, 2>>, <<FIFO, 2>> >>,
      << <<LFU, 1>>, <<FIFO, 2>> >> }
LevelKindCaps == UNION {{s[i] : i \in 1..Len(s)} : s \in Shapes}

ShapeOf(h) ==
    [i \in 1..Len(h.levels) |->
        <<h.levels[i].cache.kind, h.levels[i].cache.capacity>>]

IsPrefix(p, s) == Len(p) <= Len(s) /\ \A i \in 1..Len(p) : p[i] = s[i]

LatencyAt(n) == Latencies[IF n <= Len(Latencies) THEN n ELSE Len(Latencies)]

\* No level has been used yet: each is as add_level made it.
ConfigurationTime ==
    \A i \in 1..Len(hier.levels) :
        hier.levels[i] =
            CacheLevel(NewPolicy(hier.levels[i].cache.kind,
                                 hier.levels[i].cache.capacity),
                       hier.levels[i].name, hier.levels[i].latency_ms)

\* hierarchy gets counted in total_hits + total_misses never exceed MaxGets
\* (reset_stats starts them again at 0); the accesses counted in the
\* access_count fields of one level never exceed MaxLevelAccess.
MaxGets == 1
MaxLevelAccess == 1
\* the hierarchy gets, and the evictions and accesses of all the levels
\* together, never exceed MaxHTotal
MaxHTotal == 4

\* evictions counted by a policy plus the accesses counted in its entries
PolicyWork(c) ==
    c.stats.evictions
        + SumOver([k \in DOMAIN c.cache |-> c.cache[k].access_count - 1],
                  DOMAIN c.cache)

HBounded(h) ==
    /\ h.total_hits + h.total_misses <= MaxGets
    /\ \A i \in 1..Len(h.levels) :
          /\ h.levels[i].cache.stats.evictions <= MaxEvict
          /\ SumOver([k \in DOMAIN h.levels[i].cache.cache |->
                         h.levels[i].cache.cache[k].access_count - 1],
                     DOMAIN h.levels[i].cache.cache) <= MaxLevelAccess
    /\ h.total_hits + h.total_misses
           + SumOver([i \in 1..Len(h.levels) |-> PolicyWork(h.levels[i].cache)],
                     1..Len(h.levels)) <= MaxHTotal

InitH ==
    /\ hier = NewHierarchy
    /\ hpre = hier
    /\ hop = OpRec("init", NoKey, None, None, <<>>)
    /\ policy = NewPolicy(FIFO, 1)
    /\ pre = policy
    /\ op = OpRec("init", NoKey, None, None, <<>>)
    /\ calls = NoCalls
    /\ hist = NoHist
    /\ threads = NoThreads
    /\ atomic = TRUE
    /\ returned = 0

HAddLevel(kc, name) ==
    LET r == add_level(hier, NewPolicy(kc[1], kc[2]), name,
                       LatencyAt(Len(hier.levels) + 1)) IN
    /\ r.ret = None =>
           /\ ConfigurationTime
           /\ \E s \in Shapes : IsPrefix(Append(ShapeOf(hier), kc), s)
    /\ hier' = r.h
    /\ hpre' = hier
    /\ hop' = OpRec("add_level", NoKey, name, r.ret, <<>>)
    /\ UNCHANGED <<pvars, cvars>>

HGet(k) ==
    LET r == h_get(hier, k) IN
    /\ HBounded(r.h)
    /\ hier' = r.h
    /\ hpre' = hier
    /\ hop' = OpRec("get", k, None, r.ret,
                    IF hop.name = "put" /\ hop.key = k /\ hop.ret = None
                    THEN <<hop.val>> ELSE <<>>)
    /\ UNCHANGED <<pvars, cvars>>

HPut(k, v) ==
    LET r == h_put(hier, k, v) IN
    /\ HBounded(r.h)
    /\ hier' = r.h
    /\ hpre' = hier
    /\ hop' = OpRec("put", k, v, r.ret, <<>>)
    /\ UNCHANGED <<pvars, cvars>>

HDelete(k) ==
    LET r == h_delete(hier, k) IN
    /\ hier' = r.h
    /\ hpre' = hier
    /\ hop' = OpRec("delete", k, None, r.ret, <<>>)
    /\ UNCHANGED <<pvars, cvars>>

HContains(k) ==
    LET r == h_contains(hier, k) IN
    /\ hier' = r.h
    /\ hpre' = hier
    /\ hop' = OpRec("contains", k, None, r.ret, <<>>)
    /\ UNCHANGED <<pvars, cvars>>

HClear ==
    LET r == h_clear(hier) IN
    /\ hier' = r.h
    /\ hpre' = hier
    /\ hop' = OpRec("clear", NoKey, None, r.ret, <<>>)
    /\ UNCHANGED <<pvars, cvars>>

HResetStats ==
    LET r == h_reset_stats(hier) IN
    /\ hier' = r.h
    /\ hpre' = hier
    /\ hop' = OpRec("reset_stats", NoKey, None, r.ret, <<>>)
    /\ UNCHANGED <<pvars, cvars>>

NextH ==
    \/ \E kc \in LevelKindCaps, name \in LevelNames : HAddLevel(kc, name)
    \/ \E k \in HKeys : HGet(k)
    \/ \E k \in HKeys, v \in Vals : HPut(k, v)
    \/ \E k \in HKeys : HDelete(k)
    \/ \E k \in HKeys : HContains(k)
    \/ HClear
    \/ HResetStats

SpecH == InitH /\ [][NextH]_vars

\* ------------------------------------------------------- derived orderings
RECURSIVE Reverse(_)
\* The hierarchy used with values other than None only.
NextNotNone ==
    \/ \E kc \in LevelKindCaps, name \in LevelNames : HAddLevel(kc, name)
    \/ \E k \in HKeys : HGet(k)
    \/ \E k \in HKeys, v \in Vals \ {None} : HPut(k, v)
    \/ \E k \in HKeys : HDelete(k)
    \/ \E k \in HKeys : HContains(k)
    \/ HClear
    \/ HResetStats

SpecNotNone == InitH /\ [][NextNotNone]_vars

\* ------------------------------------------------- callers of get, in steps
\* Two callers of CacheHierarchy.get on one hierarchy.  A step of a caller
\* is the lookup of one level or the promotion put into one level.  With
\* atomic = TRUE a caller inside get keeps every other caller out until it
\* has returned (mutual exclusion around the call); with atomic = FALSE the
\* steps of the callers interleave freely.
MaxSetupPuts == 2

\* the hierarchy of the first n levels of shape
RECURSIVE WithLevels(_, _)
WithLevels(shape, n) ==
    IF n = 0 THEN NewHierarchy
    ELSE add_level(WithLevels(shape, n - 1),
                   NewPolicy(shape[n][1], shape[n][2]), None, LatencyAt(n)).h

\* h after the puts <<key, value>> of the sequence, in order
RECURSIVE AfterPuts(_, _)
AfterPuts(h, puts) ==
    IF puts = <<>> THEN h
    ELSE AfterPuts(h_put(h, Head(puts)[1], Head(puts)[2]).h, Tail(puts))

SetupPuts == UNION {[1..n -> HKeys \X Vals] : n \in 0..MaxSetupPuts}

InitC ==
    /\ \E shape \in Shapes, puts \in SetupPuts :
          hier = AfterPuts(WithLevels(shape, Len(shape)), puts)
    /\ hpre = hier
    /\ hop = OpRec("init", NoKey, None, None, <<>>)
    /\ policy = NewPolicy(FIFO, 1)
    /\ pre = policy
    /\ op = OpRec("init", NoKey, None, None, <<>>)
    /\ calls = NoCalls
    /\ hist = NoHist
    /\ threads = NoThreads
    /\ atomic \in BOOLEAN
    /\ returned = 0

\* caller t may take a step: no other caller is inside get, or the calls are
\* not made atomic
MayStep(t) ==
    atomic => \A u \in Threads \ {t} : threads[u].pc \in {"idle", "done"}

\* caller t enters get(k)
TStart(t, k) ==
    /\ threads[t].pc = "idle"
    /\ MayStep(t)
    /\ threads' = [threads EXCEPT ![t] =
                      [IdleThread EXCEPT !.pc = "lookup", !.key = k, !.i = 1]]
    /\ hpre' = hier
    /\ returned' = 0
    /\ UNCHANGED <<hier, hop, atomic, pvars>>

\* caller t looks the key up at level i, or leaves the loop after the last
\* level
TLookup(t) ==
    LET th == threads[t] IN
    /\ th.pc = "lookup"
    /\ MayStep(t)
    /\ IF th.i > Len(hier.levels)
       THEN /\ hier' = [hier EXCEPT !.total_misses = @ + 1]
            /\ threads' = [threads EXCEPT ![t].pc = "return"]
       ELSE LET r == h_get_level(hier, th.key, th.i, th.cumulative) IN
            /\ hier' = r.h
            /\ threads' =
                   [threads EXCEPT ![t] =
                       IF r.ret # None
                       THEN [th EXCEPT !.pc = IF th.i - 1 > 0 THEN "promote"
                                              ELSE "return",
                                       !.value = r.ret,
                                       !.hit = th.i,
                                       !.j = 1,
                                       !.cumulative = r.cumulative]
                       ELSE [th EXCEPT !.i = th.i + 1,
                                       !.cumulative = r.cumulative]]
    /\ returned' = 0
    /\ UNCHANGED <<hpre, hop, atomic, pvars>>

\* caller t puts the key into level j, above the level that hit
TPromote(t) ==
    LET th == threads[t] IN
    /\ th.pc = "promote"
    /\ MayStep(t)
    /\ hier' = promote_level(hier, th.key, th.value, th.j)
    /\ threads' = [threads EXCEPT ![t] =
                      [th EXCEPT !.j = th.j + 1,
                                 !.pc = IF th.j + 1 >= th.hit THEN "return"
                                        ELSE "promote"]]
    /\ returned' = 0
    /\ UNCHANGED <<hpre, hop, atomic, pvars>>

\* caller t returns from get
TReturn(t) ==
    LET th == threads[t] IN
    /\ th.pc = "return"
    /\ MayStep(t)
    /\ threads' = [threads EXCEPT ![t].pc = "done"]
    /\ hop' = OpRec("get", th.key, None, th.value, <<>>)
    /\ returned' = t
    /\ UNCHANGED <<hier, hpre, atomic, pvars>>

NextC ==
    \/ \E t \in Threads, k \in HKeys : TStart(t, k)
    \/ \E t \in Threads : TLookup(t)
    \/ \E t \in Threads : TPromote(t)
    \/ \E t \in Threads : TReturn(t)

SpecC == InitC /\ [][NextC]_vars

Reverse(s) == IF s = <<>> THEN <<>> ELSE Reverse(Tail(s)) \o <<Head(s)>>

RECURSIVE BucketsAscending(_, _)
BucketsAscending(fm, S) ==
    IF S = {} THEN <<>>
    ELSE LET f == MinOf(S) IN fm[f] \o BucketsAscending(fm, S \ {f})

\* The stored keys in the order in which successive evictions would take
\* them: next victim first.
EvictionOrder(c) ==
    CASE c.kind = FIFO -> c.insertion_queue
      [] c.kind = LRU -> Reverse(get_access_order(c))
      [] c.kind = LFU -> BucketsAscending(c.freq_map, DOMAIN c.freq_map)

\* key occurs somewhere in the auxiliary structure of the variant
InStructure(c, key) ==
    CASE c.kind = FIFO -> SeqHas(c.insertion_queue, key)
      [] c.kind = LRU ->
            \/ key \in c.node_map
            \/ c.next[key] # Nil \/ c.prev[key] # Nil
            \/ \E n \in Nodes : c.next[n] = key \/ c.prev[n] = key
      [] c.kind = LFU ->
            \/ key \in DOMAIN c.freq_key
            \/ \E f \in DOMAIN c.freq_map : SeqHas(c.freq_map[f], key)

\* ------------------------------------------------------------------ claims

\* C1: for every policy built with capacity C > 0, after every operation the
\* number of stored entries is at most C.
C1_SizeAtMostCapacity ==
    /\ policy.capacity > 0
    /\ current_size(policy) <= policy.capacity

\* C1 witness: a put of a new key into a full cache has just run.
C1_Witness ==
    /\ op.name = "put" /\ op.key \notin Stored(pre)
    /\ current_size(pre) = pre.capacity
    /\ current_size(policy) = policy.capacity

\* C2: put(k, v) immediately followed by get(k) returns v, adds exactly 1 to
\* hits and leaves misses unchanged.
C2_PutThenGet ==
    (op.name = "get" /\ op.prev_put # <<>>) =>
        /\ op.ret = op.prev_put[1]
        /\ policy.stats.hits = pre.stats.hits + 1
        /\ policy.stats.misses = pre.stats.misses

\* C2 witness: get(k) has run right after a put(k, v) that had to evict.
C2_Witness ==
    /\ op.name = "get" /\ op.prev_put = <<"v1">>
    /\ op.ret = "v1"
    /\ pre.stats.evictions = 1

\* C4: get of a key that is not stored returns the not-found result, adds
\* exactly 1 to misses and changes nothing else.
C4_GetAbsent ==
    (op.name = "get" /\ op.key \notin Stored(pre)) =>
        /\ op.ret = None
        /\ policy = [pre EXCEPT !.stats.misses = @ + 1]

\* C4 witness: a get has missed on a cache that holds other keys.
C4_Witness ==
    /\ op.name = "get" /\ op.key \notin Stored(pre)
    /\ current_size(pre) = 2
    /\ policy.stats.misses = 1

\* C5: hits is the number of get calls on a stored key and misses the number
\* of get calls on an absent key since construction or the last reset_stats;
\* put, delete, contains and clear change neither.
C5_HitsAndMissesCountGets ==
    /\ policy.stats.hits = calls.on_present
    /\ policy.stats.misses = calls.on_absent
    /\ op.name \in {"put", "delete", "contains", "clear"} =>
           /\ policy.stats.hits = pre.stats.hits
           /\ policy.stats.misses = pre.stats.misses

\* C5 witness: an updating put has run after a counted hit.
C5_Witness ==
    /\ op.name = "put" /\ op.key \in Stored(pre)
    /\ calls.on_present = 1
    /\ policy.stats.hits = 1

\* C6: contains(k) returns true exactly when k is stored and changes no
\* state: counters and eviction ordering are as before.
C6_ContainsIsPure ==
    op.name = "contains" =>
        /\ op.ret = (op.key \in Stored(pre))
        /\ policy = pre

\* C6 witness: contains has answered true on a full cache of several keys.
C6_Witness ==
    /\ op.name = "contains" /\ op.ret = TRUE
    /\ current_size(pre) = pre.capacity
    /\ pre.capacity = 2

\* C7: put of a new key into a full cache removes exactly one stored entry,
\* adds exactly 1 to evictions, stores the key and leaves the cache full; put
\* of a new key into a cache that is not full evicts nothing.
C7_PutNewKey ==
    (op.name = "put" /\ op.key \notin Stored(pre)) =>
        IF current_size(pre) = pre.capacity
        THEN /\ \E victim \in Stored(pre) :
                   /\ Stored(policy) = (Stored(pre) \ {victim}) \cup {op.key}
                   /\ \A x \in Stored(pre) \ {victim} :
                          policy.cache[x] = pre.cache[x]
             /\ policy.stats.evictions = pre.stats.evictions + 1
             /\ current_size(policy) = policy.capacity
             /\ policy.cache[op.key].value = op.val
        ELSE /\ Stored(policy) = Stored(pre) \cup {op.key}
             /\ \A x \in Stored(pre) : policy.cache[x] = pre.cache[x]
             /\ policy.stats.evictions = pre.stats.evictions
             /\ policy.cache[op.key].value = op.val

\* C7 witness: a put of a new key has overflowed a full cache of capacity 2.
C7_Witness ==
    /\ op.name = "put" /\ op.key \notin Stored(pre)
    /\ current_size(pre) = pre.capacity
    /\ pre.capacity = 2
    /\ policy.stats.evictions = 1

\* C8: put of a stored key overwrites its value and leaves the key set,
\* current_size, hits, misses and evictions unchanged; nothing is evicted.
C8_PutExistingKey ==
    (op.name = "put" /\ op.key \in Stored(pre)) =>
        /\ policy.cache[op.key].value = op.val
        /\ Stored(policy) = Stored(pre)
        /\ \A x \in Stored(pre) \ {op.key} : policy.cache[x] = pre.cache[x]
        /\ current_size(policy) = current_size(pre)
        /\ policy.stats = pre.stats

\* C8 witness: a full cache has had the value of a stored key replaced.
C8_Witness ==
    /\ op.name = "put" /\ op.key \in Stored(pre)
    /\ current_size(pre) = pre.capacity
    /\ pre.cache[op.key].value # op.val

\* C9: delete of a stored key returns true, removes it from the store and
\* from the ordering structure, lowers current_size by exactly 1, and keeps
\* every other key with its value and the remaining keys in the same
\* relative eviction order.
C9_DeleteStoredKey ==
    (op.name = "delete" /\ op.key \in Stored(pre)) =>
        /\ op.ret = TRUE
        /\ policy.cache = DictDel(pre.cache, op.key)
        /\ ~InStructure(policy, op.key)
        /\ current_size(policy) = current_size(pre) - 1
        /\ policy.stats.current_size = pre.stats.current_size - 1
        /\ EvictionOrder(policy) = SeqRemove(EvictionOrder(pre), op.key)

\* C9 witness: the deleted key was in the middle of the eviction order.
C9_Witness ==
    /\ op.name = "delete" /\ op.ret = TRUE
    /\ Len(EvictionOrder(pre)) = 3
    /\ EvictionOrder(pre)[2] = op.key
    /\ Len(EvictionOrder(policy)) = 2

\* C10: delete of a key that is not stored returns false and leaves the
\* whole state unchanged.
C10_DeleteAbsentKey ==
    (op.name = "delete" /\ op.key \notin Stored(pre)) =>
        /\ op.ret = FALSE
        /\ policy = pre

\* C10 witness: a delete has missed on a cache that holds other keys.
C10_Witness ==
    /\ op.name = "delete" /\ op.ret = FALSE
    /\ current_size(pre) = 2

\* C3: on a hierarchy with at least one level, put(k, v) immediately followed
\* by get(k) returns v (also for v = None), adds exactly 1 to the global hit
\* counter and to the hit counter of the first level, and leaves the global
\* miss counter unchanged.
C3_HierarchyPutThenGet ==
    (hop.name = "get" /\ hop.prev_put # <<>> /\ Len(hpre.levels) >= 1) =>
        /\ hop.ret = hop.prev_put[1]
        /\ hier.total_hits = hpre.total_hits + 1
        /\ hier.levels[1].stats.hits = hpre.levels[1].stats.hits + 1
        /\ hier.total_misses = hpre.total_misses

\* C3, for the values other than None: the same statement with v # None.
C3_HierarchyPutThenGetNotNone ==
    (hop.name = "get" /\ hop.prev_put # <<>> /\ Len(hpre.levels) >= 1
        /\ hop.prev_put[1] # None) =>
        /\ hop.ret = hop.prev_put[1]
        /\ hier.total_hits = hpre.total_hits + 1
        /\ hier.levels[1].stats.hits = hpre.levels[1].stats.hits + 1
        /\ hier.total_misses = hpre.total_misses

\* the round trip has run with a value other than None on three levels
C3_NotNoneReached ==
    /\ hop.name = "get" /\ hop.prev_put = <<"v1">>
    /\ Len(hpre.levels) = 3

\* ------------------------------------------------------ claims C11 to C20
\* a policy with its hits, misses and evictions counters put to 0
NoCounters(c) ==
    [c EXCEPT !.stats.hits = 0, !.stats.misses = 0, !.stats.evictions = 0]

\* the results of two calls agree: same returned value, same policy apart
\* from the hits, misses and evictions counters
SameOutcome(r1, r2) == r1.ret = r2.ret /\ NoCounters(r1.c) = NoCounters(r2.c)

\* C11: clear leaves no stored entry and an empty ordering structure (empty
\* queue, empty list, empty buckets with min_freq = 0), sets the size counter
\* to 0 and leaves hits, misses and evictions unchanged; the cleared cache is,
\* apart from those counters, a freshly constructed cache of the same
\* capacity, and every operation on it has the outcome it has on a fresh one.
C11_ClearEmptiesAll ==
    op.name = "clear" =>
        LET fresh == NewPolicy(pre.kind, pre.capacity) IN
        /\ Stored(policy) = {}
        /\ get_insertion_order(policy) = <<>>
        /\ get_access_order(policy) = <<>> /\ policy.node_map = {}
        /\ DOMAIN policy.freq_map = {} /\ DOMAIN policy.freq_key = {}
        /\ policy.min_freq = 0
        /\ policy.stats.current_size = 0
        /\ policy.stats.hits = pre.stats.hits
        /\ policy.stats.misses = pre.stats.misses
        /\ policy.stats.evictions = pre.stats.evictions
        /\ policy = [fresh EXCEPT !.stats.hits = pre.stats.hits,
                                  !.stats.misses = pre.stats.misses,
                                  !.stats.evictions = pre.stats.evictions]
        /\ \A k \in Keys :
              /\ SameOutcome(get(policy, k), get(fresh, k))
              /\ SameOutcome(delete(policy, k), delete(fresh, k))
              /\ SameOutcome(contains(policy, k), contains(fresh, k))
              /\ \A v \in Vals : SameOutcome(put(policy, k, v), put(fresh, k, v))

\* C11 witness: an LFU cache holding two keys, with a counted hit and a
\* counted eviction, has been cleared.
C11_Witness ==
    /\ op.name = "clear" /\ pre.kind = LFU
    /\ current_size(pre) = 2
    /\ pre.stats.hits = 1 /\ pre.stats.evictions = 1
    /\ policy.stats.hits = 1 /\ policy.stats.evictions = 1

\* C12: reset_stats sets hits, misses and evictions to 0, the size counter to
\* the number of stored entries and max_size to the capacity given at
\* construction, and leaves the entries and the ordering structure unchanged.
C12_ResetStats ==
    /\ op.name \notin {"init", "construct"} => policy.capacity = pre.capacity
    /\ op.name = "reset_stats" =>
           /\ policy.stats = [hits |-> 0, misses |-> 0, evictions |-> 0,
                              current_size |-> Cardinality(Stored(pre)),
                              max_size |-> pre.capacity]
           /\ policy = [pre EXCEPT !.stats = policy.stats]
           /\ policy.cache = pre.cache
           /\ EvictionOrder(policy) = EvictionOrder(pre)

\* C12 witness: reset_stats has run on a cache that holds two keys and had
\* counted a hit and an eviction.
C12_Witness ==
    /\ op.name = "reset_stats"
    /\ current_size(pre) = 2
    /\ pre.stats.hits = 1 /\ pre.stats.evictions = 1
    /\ policy.stats.current_size = 2

\* C13: constructing a policy of any kind with capacity <= 0 raises the
\* invalid-argument error and yields no instance; with capacity >= 1 it
\* yields an empty cache of that capacity whose hits, misses and evictions
\* are 0.
C13_Construction ==
    op.name = "construct" =>
        IF op.val <= 0
        THEN /\ op.ret = "ValueError"
             /\ \A kind \in Kinds : CachePolicy_init(kind, op.val).c = None
        ELSE /\ op.ret = None
             /\ policy = CachePolicy_init(policy.kind, op.val).c
             /\ Stored(policy) = {}
             /\ policy.capacity = op.val
             /\ policy.stats.hits = 0 /\ policy.stats.misses = 0
             /\ policy.stats.evictions = 0

\* C13 witness: a constructor call with capacity 0 has raised.
C13_Witness ==
    /\ op.name = "construct" /\ op.val = 0
    /\ op.ret = "ValueError"

\* a put of a new key into a full cache of the given kind has just run
Overflow(kind) ==
    /\ op.name = "put" /\ pre.kind = kind
    /\ op.key \notin Stored(pre)
    /\ current_size(pre) = pre.capacity

\* the last call was a get that hit, or a put
Touched ==
    \/ op.name = "get" /\ op.key \in Stored(pre)
    \/ op.name = "put"

\* C14: in a FIFO cache the queue holds the stored keys, oldest insertion
\* first, at all times; an overflowing put evicts the key at its head, which
\* is the oldest inserted stored key and equals peek_next_eviction() taken
\* just before the put, so successive evictions follow the insertion order.
C14_FIFOEvictsOldest ==
    /\ policy.kind = FIFO => get_insertion_order(policy) = hist.inserted
    /\ Overflow(FIFO) =>
           LET victim == peek_next_eviction(pre) IN
           /\ victim \in Stored(pre)
           /\ victim = Head(get_insertion_order(pre))
           /\ Stored(policy) = (Stored(pre) \ {victim}) \cup {op.key}
           /\ get_insertion_order(policy) =
                  Append(Tail(get_insertion_order(pre)), op.key)

\* C14 witness: a FIFO cache of capacity 2 has overflowed after a get had
\* hit one of its keys.
C14_Witness ==
    /\ Overflow(FIFO) /\ pre.capacity = 2
    /\ pre.stats.hits = 1
    /\ policy.stats.evictions = 1
    /\ Len(hist.inserted) = 2

\* C15: in a FIFO cache a get (hit or miss) and a put on a stored key leave
\* the insertion queue unchanged, each time they are applied; the queue
\* changes only with the insertion of a new key (and the eviction it causes),
\* delete and clear.
C15_FIFOQueueFrame ==
    pre.kind = FIFO =>
        /\ (op.name = "get" \/ (op.name = "put" /\ op.key \in Stored(pre))) =>
               get_insertion_order(policy) = get_insertion_order(pre)
        /\ get_insertion_order(policy) # get_insertion_order(pre) =>
               \/ op.name = "put" /\ op.key \notin Stored(pre)
               \/ op.name = "delete" /\ op.key \in Stored(pre)
               \/ op.name = "clear"

\* C15 witness: the key at the head of a FIFO queue of two keys has been
\* given a new value, after a get had hit.
C15_Witness ==
    /\ op.name = "put" /\ pre.kind = FIFO
    /\ Len(get_insertion_order(pre)) = 2
    /\ Head(get_insertion_order(pre)) = op.key
    /\ pre.cache[op.key].value # op.val
    /\ pre.stats.hits = 1

\* C16: in an LRU cache, right after a get that hits k, a put on the stored
\* key k or a put that inserts k, peek_mru() = k and the other stored keys
\* are in the same relative order as before.
C16_LRUTouchMovesToFront ==
    (pre.kind = LRU /\ Touched) =>
        /\ peek_mru(policy) = op.key
        /\ Head(get_access_order(policy)) = op.key
        /\ Tail(get_access_order(policy)) =
               SeqKeep(SeqRemove(get_access_order(pre), op.key), Stored(policy))

\* C16 witness: a get has hit the least recently used of three keys.
C16_Witness ==
    /\ op.name = "get" /\ pre.kind = LRU
    /\ current_size(pre) = 3
    /\ peek_lru(pre) = op.key
    /\ peek_mru(policy) = op.key

\* C17: in an LRU cache the list holds the stored keys by last touch (insert,
\* hit get or update) at all times; an overflowing put evicts peek_lru() as
\* taken just before the put, the stored key touched longest ago, and every
\* other stored key stays stored.
C17_LRUEvictsLeastRecent ==
    /\ policy.kind = LRU => Reverse(get_access_order(policy)) = hist.touched
    /\ Overflow(LRU) =>
           LET victim == peek_lru(pre) IN
           /\ victim \in Stored(pre)
           /\ Stored(policy) = (Stored(pre) \ {victim}) \cup {op.key}
           /\ \A x \in Stored(pre) \ {victim} : policy.cache[x] = pre.cache[x]

\* C17 witness: an LRU cache of capacity 2 has overflowed and kept a key that
\* had been touched after its insertion.
C17_Witness ==
    /\ Overflow(LRU) /\ pre.capacity = 2
    /\ \E x \in Stored(pre) \cap Stored(policy) : pre.cache[x].access_count = 2
    /\ policy.stats.evictions = 1

\* C18: in an LFU cache the frequency of a stored key is 1 + the number of
\* hit gets and updating puts on it since its most recent insertion: an
\* insertion sets it to 1, a hit get or an update adds exactly 1, and no
\* operation on another key changes it.
C18_LFUFrequencyCounts ==
    /\ policy.kind = LFU =>
           /\ DOMAIN policy.freq_key = Stored(policy)
           /\ \A k \in Stored(policy) :
                  get_key_frequency(policy, k) = hist.touches[k]
    /\ pre.kind = LFU =>
           /\ (op.name = "put" /\ op.key \notin Stored(pre)) =>
                  get_key_frequency(policy, op.key) = 1
           /\ (Touched /\ op.key \in Stored(pre)) =>
                  get_key_frequency(policy, op.key) =
                      get_key_frequency(pre, op.key) + 1
           /\ \A x \in (Stored(pre) \cap Stored(policy)) \ {op.key} :
                  get_key_frequency(policy, x) = get_key_frequency(pre, x)

\* C18 witness: a get has hit a key of frequency 2 while another key is
\* stored.
C18_Witness ==
    /\ op.name = "get" /\ pre.kind = LFU
    /\ op.key \in Stored(pre)
    /\ get_key_frequency(pre, op.key) = 2
    /\ get_key_frequency(policy, op.key) = 3
    /\ current_size(policy) = 2

\* the stored key the history gives as the one to evict: least touches, and
\* among those the one touched longest ago
LeastFrequentByHistory ==
    LET m == MinOf({hist.touches[k] : k \in DOMAIN hist.touches})
    IN Head(SeqKeep(hist.touched, {k \in DOMAIN hist.touches : hist.touches[k] = m}))

\* C19: in an LFU cache peek_lfu() is at all times the stored key of minimum
\* frequency that entered its frequency bucket earliest; an overflowing put
\* evicts peek_lfu() as taken just before the put, a key of minimum frequency
\* among the stored keys and the first of its bucket.
C19_LFUEvictsLeastFrequent ==
    /\ (policy.kind = LFU /\ Stored(policy) # {}) =>
           peek_lfu(policy) = LeastFrequentByHistory
    /\ Overflow(LFU) =>
           LET victim == peek_lfu(pre) IN
           /\ victim \in Stored(pre)
           /\ \A x \in Stored(pre) :
                  get_key_frequency(pre, victim) <= get_key_frequency(pre, x)
           /\ victim = Head(pre.freq_map[get_key_frequency(pre, victim)])
           /\ Stored(policy) = (Stored(pre) \ {victim}) \cup {op.key}

\* C19 witness: an LFU cache of capacity 2 whose two keys both have
\* frequency 2 has overflowed.
C19_Witness ==
    /\ Overflow(LFU) /\ pre.capacity = 2
    /\ \A x \in Stored(pre) : get_key_frequency(pre, x) = 2
    /\ policy.stats.evictions = 1

\* level i of h holds key with a value that a lookup reports as found
HitsAt(h, i, key) ==
    /\ key \in Stored(h.levels[i].cache)
    /\ h.levels[i].cache.cache[key].value # None

\* the first level of h at which a get of key hits, 0 when there is none
FirstHit(h, key) ==
    LET hitting == {i \in 1..Len(h.levels) : HitsAt(h, i, key)}
    IN IF hitting = {} THEN 0 ELSE MinOf(hitting)

\* C20: a hierarchy get(k) that first hits at level i returns the value
\* stored at level i; right afterwards every level above i holds k with that
\* value (a policy get(k) on it returns the value), whatever the policies and
\* capacities of those levels, and level i still holds k.
C20_HitPromotesToUpperLevels ==
    (hop.name = "get" /\ FirstHit(hpre, hop.key) >= 1) =>
        LET i == FirstHit(hpre, hop.key) IN
        /\ hop.ret = hpre.levels[i].cache.cache[hop.key].value
        /\ \A j \in 1..(i - 1) :
              /\ hop.key \in Stored(hier.levels[j].cache)
              /\ hier.levels[j].cache.cache[hop.key].value = hop.ret
              /\ get(hier.levels[j].cache, hop.key).ret = hop.ret
        /\ hop.key \in Stored(hier.levels[i].cache)
        /\ hier.levels[i].cache.cache[hop.key].value = hop.ret

\* C20 witness: a get has first hit at the third level while the two levels
\* above it were full of another key.
C20_Witness ==
    /\ hop.name = "get" /\ FirstHit(hpre, hop.key) = 3
    /\ \A j \in 1..2 :
          /\ current_size(hpre.levels[j].cache) = hpre.levels[j].cache.capacity
          /\ hop.key \notin Stored(hpre.levels[j].cache)
          /\ hop.key \in Stored(hier.levels[j].cache)

\* ------------------------------------------------------ claims C21 to C30
\* the level positions of a hierarchy
LevelsOf(h) == 1..Len(h.levels)

\* C21 as stated: a get that hits at level index i > 0 adds exactly 1 to the
\* promotion counter of every level above the hit level and exactly 1 to the
\* global promotion counter; a get that hits at the first level changes no
\* promotion counter; the hit level and the levels below it keep theirs.
C21_GlobalPromotionOnce ==
    (hop.name = "get" /\ FirstHit(hpre, hop.key) >= 1) =>
        LET i == FirstHit(hpre, hop.key) IN
        /\ \A j \in 1..(i - 1) :
              hier.levels[j].stats.promotions = hpre.levels[j].stats.promotions + 1
        /\ \A j \in i..Len(hier.levels) :
              hier.levels[j].stats.promotions = hpre.levels[j].stats.promotions
        /\ hier.total_promotions =
              hpre.total_promotions + (IF i > 1 THEN 1 ELSE 0)

\* C21 amended: a get that hits at level index i > 0 adds exactly 1 to the
\* promotion counter of every level above the hit level and exactly i to the
\* global promotion counter (1 for each level the key is copied to); a get
\* that hits at the first level changes no promotion counter; the hit level
\* and the levels below it keep theirs.
C21_GlobalPromotionPerLevel ==
    (hop.name = "get" /\ FirstHit(hpre, hop.key) >= 1) =>
        LET i == FirstHit(hpre, hop.key) IN
        /\ \A j \in 1..(i - 1) :
              hier.levels[j].stats.promotions = hpre.levels[j].stats.promotions + 1
        /\ \A j \in i..Len(hier.levels) :
              hier.levels[j].stats.promotions = hpre.levels[j].stats.promotions
        /\ hier.total_promotions = hpre.total_promotions + (i - 1)

\* C21 witness: a get has hit at the third level and counted two global
\* promotions.
C21_Witness ==
    /\ hop.name = "get" /\ FirstHit(hpre, hop.key) = 3
    /\ hier.total_promotions = hpre.total_promotions + 2
    /\ hier.levels[1].stats.promotions = 1
    /\ hier.levels[2].stats.promotions = 1

\* C22: after a hierarchy put(k, v) on one level or more, every level
\* contains k and a policy get(k) on it returns v; a level that was full
\* and did not hold k has lost exactly one of its own keys to one eviction,
\* and every other level has lost none.
C22_WriteThrough ==
    (hop.name = "put" /\ hop.ret = None) =>
        /\ Len(hier.levels) = Len(hpre.levels)
        /\ Len(hier.levels) >= 1
        /\ \A i \in LevelsOf(hier) :
              LET before == hpre.levels[i].cache
                  after == hier.levels[i].cache
              IN /\ hop.key \in Stored(after)
                 /\ contains(after, hop.key).ret
                 /\ get(after, hop.key).ret = hop.val
                 /\ IF hop.key \notin Stored(before) /\ is_full(before)
                    THEN /\ \E victim \in Stored(before) :
                               Stored(after) =
                                   (Stored(before) \ {victim}) \cup {hop.key}
                         /\ after.stats.evictions = before.stats.evictions + 1
                    ELSE /\ Stored(after) = Stored(before) \cup {hop.key}
                         /\ after.stats.evictions = before.stats.evictions

\* a put on three levels, of which one was full without the key and evicts
\* and another held the key already
C22_Witness ==
    /\ hop.name = "put"
    /\ hop.ret = None
    /\ Len(hier.levels) = 3
    /\ \E i \in LevelsOf(hier) :
          /\ hop.key \notin Stored(hpre.levels[i].cache)
          /\ is_full(hpre.levels[i].cache)
          /\ hier.levels[i].cache.stats.evictions
                 = hpre.levels[i].cache.stats.evictions + 1
    /\ \E i \in LevelsOf(hier) : hop.key \in Stored(hpre.levels[i].cache)

\* C23: a hierarchy put on a hierarchy with no levels fails with a
\* RuntimeError and changes nothing: the global counters stay as they were
\* and there is still no level.
C23_PutWithoutLevelsFails ==
    (hop.name = "put" /\ hpre.levels = <<>>) =>
        /\ hop.ret = "RuntimeError"
        /\ hier = hpre
        /\ hier.levels = <<>>

\* the failing put came after a get that had counted a global miss
C23_Witness ==
    /\ hop.name = "put"
    /\ hop.ret = "RuntimeError"
    /\ hpre.levels = <<>>
    /\ hier.total_misses = 1

\* the name add_level gives the level: the one asked for, or L<n> for None
NameAsked == IF hop.val = None THEN DefaultName(Len(hpre.levels) + 1)
             ELSE hop.val

NameInUse(h, name) == \E i \in LevelsOf(h) : h.levels[i].name = name

\* C24: add_level with the name of an existing level fails with a ValueError
\* and leaves the level list and all counters as they were; add_level with a
\* fresh name appends the level at the deepest index with its level counters
\* at zero and leaves the levels before it alone; so the names of the levels
\* are pairwise distinct in every state.
C24_AddLevelNames ==
    /\ hop.name = "add_level" =>
          IF NameInUse(hpre, NameAsked)
          THEN hop.ret = "ValueError" /\ hier = hpre
          ELSE /\ hop.ret = None
               /\ Len(hier.levels) = Len(hpre.levels) + 1
               /\ SubSeq(hier.levels, 1, Len(hpre.levels)) = hpre.levels
               /\ hier.levels[Len(hier.levels)].name = NameAsked
               /\ hier.levels[Len(hier.levels)].stats = LevelStats(NameAsked)
               /\ [hier EXCEPT !.levels = hpre.levels] = hpre
    /\ \A i, j \in LevelsOf(hier) :
          hier.levels[i].name = hier.levels[j].name => i = j

\* add_level refused on a hierarchy of three levels that has served a get
C24_Witness ==
    /\ hop.name = "add_level"
    /\ hop.ret = "ValueError"
    /\ Len(hier.levels) = 3
    /\ hier.total_hits = 1
    /\ hier.levels[3].name = "L3"

\* the four global counters of a hierarchy
GlobalCounters(h) ==
    <<h.total_hits, h.total_misses, h.total_promotions, h.total_latency_ms>>

\* C25: a hierarchy delete(k) returns TRUE exactly when some level held k
\* before the call; afterwards no level holds k, whichever levels held it,
\* and every level keeps its other keys; no hit, miss, promotion or latency
\* counter of a level, of a level's policy or of the hierarchy changes.
C25_DeleteEveryLevel ==
    hop.name = "delete" =>
        /\ hop.ret = (\E i \in LevelsOf(hpre) :
                         hop.key \in Stored(hpre.levels[i].cache))
        /\ Len(hier.levels) = Len(hpre.levels)
        /\ \A i \in LevelsOf(hier) :
              /\ hop.key \notin Stored(hier.levels[i].cache)
              /\ ~contains(hier.levels[i].cache, hop.key).ret
              /\ Stored(hier.levels[i].cache)
                     = Stored(hpre.levels[i].cache) \ {hop.key}
              /\ hier.levels[i].stats = hpre.levels[i].stats
              /\ hier.levels[i].cache.stats.hits
                     = hpre.levels[i].cache.stats.hits
              /\ hier.levels[i].cache.stats.misses
                     = hpre.levels[i].cache.stats.misses
        /\ GlobalCounters(hier) = GlobalCounters(hpre)

\* the key was held by the second and third level and not by the first,
\* in a hierarchy that had counted a hit and a promotion
C25_Witness ==
    /\ hop.name = "delete"
    /\ hop.ret = TRUE
    /\ Len(hpre.levels) = 3
    /\ hop.key \notin Stored(hpre.levels[1].cache)
    /\ hop.key \in Stored(hpre.levels[2].cache)
    /\ hop.key \in Stored(hpre.levels[3].cache)
    /\ hier.total_hits = 1
    /\ hier.total_promotions >= 1

\* C26: a hierarchy contains(k) returns TRUE exactly when some level holds
\* k, and changes nothing: no level's contents, eviction order, policy
\* counters or level counters, no global counter, and no promotion.
C26_ContainsPure ==
    hop.name = "contains" =>
        /\ hop.ret = (\E i \in LevelsOf(hpre) :
                         hop.key \in Stored(hpre.levels[i].cache))
        /\ hier = hpre

\* the key was held below the first level only, and stays there
C26_Witness ==
    /\ hop.name = "contains"
    /\ hop.ret = TRUE
    /\ Len(hier.levels) >= 2
    /\ hop.key \notin Stored(hier.levels[1].cache)
    /\ hop.key \in Stored(hier.levels[2].cache)
    /\ hier.levels[2].cache.cache[hop.key].value # None

\* C27: a hierarchy get(k) for a key that no level holds returns None, adds
\* exactly 1 to the miss counter of every level and to the global miss
\* counter, changes no hit or promotion counter, and leaves the contents and
\* the eviction order of every level as they were.
C27_TotalMiss ==
    (hop.name = "get" /\ \A i \in LevelsOf(hpre) :
                             hop.key \notin Stored(hpre.levels[i].cache)) =>
        /\ hop.ret = None
        /\ Len(hier.levels) = Len(hpre.levels)
        /\ \A i \in LevelsOf(hier) :
              /\ hier.levels[i].stats.misses = hpre.levels[i].stats.misses + 1
              /\ hier.levels[i].stats.hits = hpre.levels[i].stats.hits
              /\ hier.levels[i].stats.promotions
                     = hpre.levels[i].stats.promotions
              /\ hier.levels[i].cache.stats.hits
                     = hpre.levels[i].cache.stats.hits
              /\ [hier.levels[i].cache EXCEPT !.stats = hpre.levels[i].cache.stats]
                     = hpre.levels[i].cache
              /\ EvictionOrder(hier.levels[i].cache)
                     = EvictionOrder(hpre.levels[i].cache)
        /\ hier.total_misses = hpre.total_misses + 1
        /\ hier.total_hits = hpre.total_hits
        /\ hier.total_promotions = hpre.total_promotions

\* a miss at each of three levels, all of which hold the other key
C27_Witness ==
    /\ hop.name = "get"
    /\ hop.ret = None
    /\ Len(hier.levels) = 3
    /\ \A i \in LevelsOf(hier) :
          /\ hop.key \notin Stored(hpre.levels[i].cache)
          /\ Stored(hier.levels[i].cache) # {}
          /\ hier.levels[i].stats.misses = 1
    /\ hier.total_misses = 1

\* C28: a hierarchy reset_stats() sets the hits, misses, promotions,
\* demotions and cumulative latency of every level and the four global
\* counters to zero, sets each level's policy statistics to zero hits,
\* misses and evictions with the size counter at the current size, and
\* leaves every level's contents, eviction order, name and latency alone.
C28_HierarchyResetStats ==
    hop.name = "reset_stats" =>
        /\ Len(hier.levels) = Len(hpre.levels)
        /\ \A i \in LevelsOf(hier) :
              LET lv == hier.levels[i] IN
              /\ lv.stats.hits = 0
              /\ lv.stats.misses = 0
              /\ lv.stats.promotions = 0
              /\ lv.stats.demotions = 0
              /\ lv.stats.total_latency_ms = 0
              /\ lv.cache.stats.hits = 0
              /\ lv.cache.stats.misses = 0
              /\ lv.cache.stats.evictions = 0
              /\ lv.cache.stats.current_size = current_size(hpre.levels[i].cache)
              /\ [lv.cache EXCEPT !.stats = hpre.levels[i].cache.stats]
                     = hpre.levels[i].cache
              /\ EvictionOrder(lv.cache) = EvictionOrder(hpre.levels[i].cache)
              /\ lv.name = hpre.levels[i].name
              /\ lv.stats.name = lv.name
              /\ lv.latency_ms = hpre.levels[i].latency_ms
        /\ GlobalCounters(hier) = <<0, 0, 0, 0>>

\* the reset came after a hit at the third level, promotions, a policy
\* eviction and a policy miss, with keys stored at every level
C28_Witness ==
    /\ hop.name = "reset_stats"
    /\ Len(hpre.levels) = 3
    /\ hpre.total_hits = 1
    /\ hpre.total_promotions = 2
    /\ hpre.total_latency_ms > 0
    /\ hpre.levels[3].stats.hits = 1
    /\ hpre.levels[1].stats.misses = 1
    /\ \E i \in LevelsOf(hpre) : hpre.levels[i].cache.stats.evictions > 0
    /\ \E i \in LevelsOf(hpre) : hpre.levels[i].cache.stats.misses > 0
    /\ \A i \in LevelsOf(hier) : Stored(hier.levels[i].cache) # {}

\* the latency summed over the first n levels of h
LatencyUpTo(h, n) == SumOver([j \in 1..n |-> h.levels[j].latency_ms], 1..n)

\* C29: with integer latencies, a hierarchy get adds to the cumulative
\* latency counter of each level it visits that level's own latency, and
\* nothing to the counter of any other level: the levels visited are those
\* up to and including the first level that hits, or all of them when no
\* level hits.  On a hit at level i the global latency total grows by the sum
\* of the latencies of the levels up to and including i, and the global hit
\* counter and the hit counter of level i grow by 1; when no level hits the
\* global latency total stays as it was.
C29_LatencyAccounting ==
    hop.name = "get" =>
        LET i == FirstHit(hpre, hop.key)
            visited == IF i = 0 THEN LevelsOf(hpre) ELSE 1..i
        IN /\ Len(hier.levels) = Len(hpre.levels)
           /\ \A j \in LevelsOf(hier) :
                 /\ hier.levels[j].latency_ms = hpre.levels[j].latency_ms
                 /\ hier.levels[j].stats.total_latency_ms
                        = hpre.levels[j].stats.total_latency_ms
                              + (IF j \in visited
                                 THEN hpre.levels[j].latency_ms ELSE 0)
           /\ IF i >= 1
              THEN /\ hier.total_latency_ms
                          = hpre.total_latency_ms + LatencyUpTo(hpre, i)
                   /\ hier.total_hits = hpre.total_hits + 1
                   /\ hier.levels[i].stats.hits = hpre.levels[i].stats.hits + 1
              ELSE hier.total_latency_ms = hpre.total_latency_ms

\* a hit at the third level, after latencies 1, 2 and 4: the total grows by 7
C29_Witness ==
    /\ hop.name = "get"
    /\ FirstHit(hpre, hop.key) = 3
    /\ hier.total_latency_ms = hpre.total_latency_ms + 7
    /\ hier.levels[1].stats.total_latency_ms = 1
    /\ hier.levels[2].stats.total_latency_ms = 2
    /\ hier.levels[3].stats.total_latency_ms = 4
    /\ hier.levels[3].stats.hits = 1

\* C30: in a FIFO cache, after every public operation, the insertion queue
\* holds each stored key exactly once and no key that is not stored, so its
\* length is current_size: after get, update, delete at any position,
\* eviction, re-insertion of a key removed earlier, and clear.
C30_FIFOQueueMatchesStore ==
    policy.kind = FIFO =>
        LET q == get_insertion_order(policy) IN
        /\ \A k \in Stored(policy) :
              Cardinality({n \in 1..Len(q) : q[n] = k}) = 1
        /\ \A n \in 1..Len(q) : q[n] \in Stored(policy)
        /\ Len(q) = current_size(policy)

\* a key removed earlier is inserted again: the cache of capacity 2 has
\* evicted once (so all three keys have been stored) and held one key
C30_Witness ==
    /\ op.name = "put"
    /\ policy.kind = FIFO
    /\ pre.kind = FIFO
    /\ pre.capacity = 2
    /\ pre.stats.evictions = 1
    /\ Len(get_insertion_order(pre)) = 1
    /\ op.key \notin Stored(pre)
    /\ get_insertion_order(policy) = Append(get_insertion_order(pre), op.key)

\* ------------------------------------------------------ claims C31 to C40
\* the elements of a sequence
Range(s) == {s[n] : n \in 1..Len(s)}

NoDuplicates(s) == \A m, n \in 1..Len(s) : s[m] = s[n] => m = n

\* C31: in an LRU cache, after every public operation, the list between the
\* sentinels has no duplicates, its keys are exactly the stored keys and
\* exactly the keys of the node map, it lists the stored keys from the most
\* recently to the least recently touched (insert, hit get or update), and
\* every forward link from HEAD to TAIL is matched by the backward link.
C31_LRUListMatchesStore ==
    policy.kind = LRU =>
        LET order == get_access_order(policy)
            chain == <<HEAD>> \o order \o <<TAIL>>
        IN /\ NoDuplicates(order)
           /\ Range(order) = Stored(policy)
           /\ Range(order) = policy.node_map
           /\ order = Reverse(hist.touched)
           /\ \A n \in 1..(Len(chain) - 1) :
                 /\ policy.next[chain[n]] = chain[n + 1]
                 /\ policy.prev[chain[n + 1]] = chain[n]

\* the middle node of a list of three, the list having been reordered by a
\* hit get before, is deleted
C31_Witness ==
    /\ op.name = "delete"
    /\ pre.kind = LRU
    /\ Len(get_access_order(pre)) = 3
    /\ get_access_order(pre)[2] = op.key
    /\ \E k \in Stored(pre) : pre.cache[k].access_count >= 2
    /\ Len(get_access_order(policy)) = 2

\* the places <<frequency, position>> at which key sits in the buckets of c
BucketPlaces(c, key) ==
    {fn \in UNION {{<<f, n>> : n \in 1..Len(c.freq_map[f])} :
                       f \in DOMAIN c.freq_map} :
        c.freq_map[fn[1]][fn[2]] = key}

\* C32: in an LFU cache, after every public operation, every stored key sits
\* in exactly one frequency bucket, once, and that bucket's frequency is the
\* key's entry in the key-to-frequency map; no bucket holds a key that is not
\* stored; no bucket of the frequency map is empty: so the counts of
\* get_frequency_distribution are all at least 1 and sum to current_size.
C32_LFUBucketsMatchStore ==
    policy.kind = LFU =>
        /\ DOMAIN policy.freq_key = Stored(policy)
        /\ \A k \in Stored(policy) :
              /\ Cardinality(BucketPlaces(policy, k)) = 1
              /\ \A fn \in BucketPlaces(policy, k) :
                    fn[1] = get_key_frequency(policy, k)
        /\ \A f \in DOMAIN policy.freq_map :
              /\ policy.freq_map[f] # <<>>
              /\ Range(policy.freq_map[f]) \subseteq Stored(policy)
        /\ LET dist == get_frequency_distribution(policy)
           IN /\ \A f \in DOMAIN dist : dist[f] >= 1
              /\ SumOver(dist, DOMAIN dist) = current_size(policy)

\* the key that was alone in its bucket is deleted while another bucket
\* stays: the distribution goes from two buckets to one
C32_Witness ==
    /\ op.name = "delete"
    /\ pre.kind = LFU
    /\ op.key \in Stored(pre)
    /\ Cardinality(DOMAIN get_frequency_distribution(pre)) = 2
    /\ get_frequency_distribution(pre)[get_key_frequency(pre, op.key)] = 1
    /\ Cardinality(DOMAIN get_frequency_distribution(policy)) = 1
    /\ current_size(policy) >= 1

\* C33: in an LFU cache, after every public operation, min_freq is 0 when
\* nothing is stored and otherwise the smallest frequency of a stored key:
\* also after the only key of the minimum bucket has been deleted, after an
\* access has moved the only key out of the minimum bucket, and after an
\* eviction has emptied the minimum bucket.
C33_LFUMinFreq ==
    policy.kind = LFU =>
        policy.min_freq =
            IF Stored(policy) = {} THEN 0
            ELSE MinOf({get_key_frequency(policy, k) : k \in Stored(policy)})

\* the only key of the minimum bucket (frequency 1) is deleted and the
\* smallest frequency left is 3
C33_Witness ==
    /\ op.name = "delete"
    /\ pre.kind = LFU
    /\ op.key \in Stored(pre)
    /\ pre.min_freq = 1
    /\ get_key_frequency(pre, op.key) = 1
    /\ policy.min_freq = 3
    /\ Stored(policy) # {}

\* an access has moved the only key out of the minimum bucket
C33_AccessReached ==
    /\ op.name = "get"
    /\ pre.kind = LFU
    /\ current_size(pre) = 2
    /\ pre.min_freq = 1
    /\ policy.min_freq = 2

\* an eviction has emptied the minimum bucket, which had frequency 2
C33_EvictionReached ==
    /\ Overflow(LFU)
    /\ pre.min_freq = 2
    /\ get_frequency_distribution(pre)[2] = 1
    /\ policy.min_freq = 1

\* C34: peek_next_eviction (FIFO), peek_lru and peek_mru (LRU) and peek_lfu
\* (LFU) change nothing in any state: the stored entries, the counters and
\* the ordering structures are the same before and after, the frequency map
\* of an LFU cache has the same buckets (none added, not even an empty one),
\* and on an empty cache they return None.
C34_PeekPure ==
    op.name \in PeekNames =>
        /\ policy = pre
        /\ DOMAIN policy.freq_map = DOMAIN pre.freq_map
        /\ Stored(pre) = {} => op.ret = None
        /\ Stored(pre) # {} => op.ret \in Stored(pre)

\* peek_lfu on an LFU cache that has been emptied by delete after use
C34_Witness ==
    /\ op.name = "peek_lfu"
    /\ pre.kind = LFU
    /\ Stored(pre) = {}
    /\ pre.stats.hits + pre.stats.misses >= 1
    /\ op.ret = None
    /\ policy.freq_map = EmptyDict

\* peek_mru on an LRU list of two keys returns the one that peek_lru does not
C34_EachPeekReached ==
    /\ op.name = "peek_mru"
    /\ current_size(pre) = 2
    /\ op.ret # peek_lru(pre)

\* caller t has just returned from a get that hit below the first level,
\* its promotion finished, and some level above the hit lacks the key
PromotedKeyMissing(t) ==
    /\ returned = t
    /\ threads[t].pc = "done"
    /\ threads[t].hit > 1
    /\ threads[t].j = threads[t].hit
    /\ \E l \in 1..(threads[t].hit - 1) :
          threads[t].key \notin Stored(hier.levels[l].cache)

\* C35: when each get runs atomically, no get that hit at level i > 0
\* returns, its promotion finished, with the promoted key absent from a
\* level above i (and the steps of a get add up to the get as a whole); when
\* the per-level steps of two gets interleave, such a return is reachable.
C35_AtomicGetKeepsPromotion ==
    atomic =>
        /\ \A t \in Threads : ~PromotedKeyMissing(t)
        /\ returned # 0 =>
               /\ hier = h_get(hpre, hop.key).h
               /\ hop.ret = h_get(hpre, hop.key).ret

\* interleaved: a get that hit at the third level returns while the first
\* level, into which it had put the key, no longer holds it
C35_Witness ==
    /\ ~atomic
    /\ \E t \in Threads :
          /\ PromotedKeyMissing(t)
          /\ threads[t].hit = 3
          /\ threads[t].key \notin Stored(hier.levels[1].cache)
          /\ hier.levels[1].stats.promotions >= 1

\* atomic: a get that hit at the third level has returned after another get
C35_AtomicReached ==
    /\ atomic
    /\ \E t \in Threads :
          /\ returned = t
          /\ threads[t].hit = 3
          /\ \A u \in Threads : threads[u].pc = "done"

\* the access count of the entry of key k in c
AccessCount(c, k) == c.cache[k].access_count

\* C36 as stated: for every policy a get on a stored key adds exactly 1 to
\* the entry's access count, and the access count is 1 + the number of hit
\* gets on the entry since its insertion (an insertion sets it to 1, a hit
\* get adds 1, nothing else changes it), never below 1.
C36_AccessCountIsHitGets ==
    /\ \A k \in Stored(policy) : AccessCount(policy, k) >= 1
    /\ (op.name = "get" /\ op.key \in Stored(pre)) =>
           AccessCount(policy, op.key) = AccessCount(pre, op.key) + 1
    /\ (op.name = "put" /\ op.key \notin Stored(pre)) =>
           AccessCount(policy, op.key) = 1
    /\ \A k \in Stored(pre) \cap Stored(policy) :
           ~(op.name = "get" /\ op.key = k) =>
               AccessCount(policy, k) = AccessCount(pre, k)

\* C36 for FIFO alone: a hit get adds exactly 1 to the entry's access count
C36_FIFOGetCounts ==
    (op.name = "get" /\ pre.kind = FIFO /\ op.key \in Stored(pre)) =>
        AccessCount(policy, op.key) = AccessCount(pre, op.key) + 1

\* what the code does: in LRU and LFU a hit get and an update each add
\* exactly 1, in FIFO nothing does; an insertion sets 1; the access count of
\* every other stored entry stays, and none is below 1.
C36_AccessCountAsCoded ==
    /\ \A k \in Stored(policy) : AccessCount(policy, k) >= 1
    /\ (op.name \in {"get", "put"} /\ op.key \in Stored(pre)) =>
           AccessCount(policy, op.key) =
               AccessCount(pre, op.key) + (IF pre.kind = FIFO THEN 0 ELSE 1)
    /\ (op.name = "put" /\ op.key \notin Stored(pre)) =>
           AccessCount(policy, op.key) = 1
    /\ \A k \in Stored(pre) \cap Stored(policy) :
           ~(op.name \in {"get", "put"} /\ op.key = k) =>
               AccessCount(policy, k) = AccessCount(pre, k)

\* a second hit get on an entry of an LRU cache
C36_HitGetReached ==
    /\ op.name = "get"
    /\ op.key \in Stored(pre)
    /\ pre.kind = LRU
    /\ AccessCount(policy, op.key) = 3

\* C37: for every policy, after every public operation (evicting puts,
\* delete, clear and reset_stats included), the current_size of the stats is
\* the number of stored entries and the max_size of the stats is the
\* capacity given at construction.
C37_StatsSizeIsSize ==
    /\ policy.stats.current_size = Cardinality(Stored(policy))
    /\ policy.stats.max_size = policy.capacity

\* an evicting put on a full LFU cache of capacity 2
C37_Witness ==
    /\ Overflow(LFU)
    /\ policy.capacity = 2
    /\ policy.stats.current_size = 2
    /\ policy.stats.evictions = 1
    /\ policy.stats.max_size = 2

\* C38: in every state of a hierarchy the global hit counter is the sum of
\* the hit counters of the levels, the global promotion counter is the sum of
\* the promotion counters of the levels, and the demotions counter of every
\* level is 0.
C38_GlobalCountersAreSums ==
    /\ hier.total_hits =
           SumOver([i \in LevelsOf(hier) |-> hier.levels[i].stats.hits],
                   LevelsOf(hier))
    /\ hier.total_promotions =
           SumOver([i \in LevelsOf(hier) |-> hier.levels[i].stats.promotions],
                   LevelsOf(hier))
    /\ \A i \in LevelsOf(hier) : hier.levels[i].stats.demotions = 0

\* after a hit at the third level that promoted the key into two levels
C38_Witness ==
    /\ hop.name = "get"
    /\ Len(hier.levels) = 3
    /\ hier.levels[3].stats.hits = 1
    /\ hier.total_hits = 1
    /\ hier.levels[1].stats.promotions = 1
    /\ hier.levels[2].stats.promotions = 1
    /\ hier.total_promotions = 2

\* C39: in a hierarchy of fresh, distinct policy instances used through the
\* hierarchy only and never given the value None, in every state the hits
\* and the misses of each level equal the hits and the misses of the stats of
\* that level's policy; a get that hits at level i counts one miss at each
\* level above i and one hit at level i, in both; a put (write-through or
\* promotion) changes neither.
C39_LevelCountersMatchPolicy ==
    /\ \A i \in LevelsOf(hier) :
          /\ hier.levels[i].stats.hits = hier.levels[i].cache.stats.hits
          /\ hier.levels[i].stats.misses = hier.levels[i].cache.stats.misses
    /\ (hop.name = "get" /\ FirstHit(hpre, hop.key) >= 1) =>
          LET hit == FirstHit(hpre, hop.key) IN
          \A i \in LevelsOf(hier) :
              /\ hier.levels[i].stats.misses =
                     hpre.levels[i].stats.misses + (IF i < hit THEN 1 ELSE 0)
              /\ hier.levels[i].stats.hits =
                     hpre.levels[i].stats.hits + (IF i = hit THEN 1 ELSE 0)
    /\ (hop.name = "put" /\ hop.ret = None) =>
          \A i \in LevelsOf(hier) :
              /\ hier.levels[i].stats.hits = hpre.levels[i].stats.hits
              /\ hier.levels[i].stats.misses = hpre.levels[i].stats.misses
              /\ hier.levels[i].cache.stats.hits
                     = hpre.levels[i].cache.stats.hits
              /\ hier.levels[i].cache.stats.misses
                     = hpre.levels[i].cache.stats.misses

\* a hit at the third level: one miss at each of the two levels above, in
\* the level's counters and in its policy's, and the promotion puts done
C39_Witness ==
    /\ hop.name = "get"
    /\ FirstHit(hpre, hop.key) = 3
    /\ \A i \in 1..2 :
          /\ hier.levels[i].stats.misses = 1
          /\ hier.levels[i].cache.stats.misses = 1
          /\ hier.levels[i].stats.promotions = 1
    /\ hier.levels[3].cache.stats.hits = 1

\* C40: a hierarchy get(k) whose first hit is at level i leaves every level
\* deeper than i as it was: stored entries, eviction order, the policy's hits,
\* misses and evictions, and the level's hits, misses, promotions and
\* cumulative latency; a hit at the first level touches no other level.
C40_DeeperLevelsUntouched ==
    (hop.name = "get" /\ FirstHit(hpre, hop.key) >= 1) =>
        /\ Len(hier.levels) = Len(hpre.levels)
        /\ \A l \in (FirstHit(hpre, hop.key) + 1)..Len(hier.levels) :
              /\ hier.levels[l] = hpre.levels[l]
              /\ EvictionOrder(hier.levels[l].cache)
                     = EvictionOrder(hpre.levels[l].cache)

\* a hit at the first of three levels, the key being stored at both deeper
\* levels too
C40_Witness ==
    /\ hop.name = "get"
    /\ FirstHit(hpre, hop.key) = 1
    /\ Len(hier.levels) = 3
    /\ hop.key \in Stored(hier.levels[2].cache)
    /\ hop.key \in Stored(hier.levels[3].cache)
    /\ hier.levels[1].stats.hits = 1

====
